---- MODULE Spec2Model ----
(***************************************************************************)
(* Model of the agent orchestration core of the ReplyChat server:          *)
(*   - the issue store and its handlers (src/src/main.go),                 *)
(*   - the Dispatcher (startTaskProcessor, claimNextQueuedIssue),          *)
(*   - the AgentRunner (generateAgentResponse, markIssueCompleted),        *)
(*   - the hub's broadcast channel,                                        *)
(*   - the WorkspaceMutator (applyActionPlan, secureJoin),                 *)
(*   - dialog resolution (respondToDialog).                                *)
(*                                                                         *)
(* Specifications:                                                         *)
(*   Spec        concurrent requests, the Dispatcher and the runs; every   *)
(*               store statement and every channel send is one step        *)
(*   SpecSeq     the requests of Spec with every status, while time passes *)
(*   SpecClaim   the ticks of several Dispatchers among the requests       *)
(*   SpecStamp   the requests of one client, with statuses outside the     *)
(*               enumeration, while time passes                            *)
(*   SpecTick    the Dispatcher's claim on a table of several issues       *)
(*   SpecPropose the tasks the runs propose and their approval             *)
(*   SpecQueued  the writers of the queued and the assigned agent          *)
(*   SpecComplete  markIssueCompleted against requests on its issue        *)
(*   SpecShutdown  the background loops and the cancellation               *)
(*   SpecDrain   the Dispatcher loop draining the queue                    *)
(*   SpecDialog  the @dialog block of a run and concurrent respondToDialog *)
(*               calls, statement by statement                             *)
(*   SpecApply   applyActionPlan on plans drawn from a bounded set         *)
(*   SpecAbort   applyActionPlan on a few paths, for the aborted call      *)
(*   SpecTwice   one plan applied and committed by two applications        *)
(*   SpecHub     the hub's fan-out and the pumps of the connections        *)
(*   SpecHubLoop the cases of Hub.run and the senders on its channels      *)
(*   SpecRun     one run of generateAgentResponse, phase by phase          *)
(*   SpecChat    chat messages, their events and the agent replies         *)
(*   SpecSelect  the SELECT of claimNextQueuedIssue on bounded tables      *)
(*   SpecStats   collectQueueStatsForProject on bounded tables             *)
(*   SpecDetect  DetectAgent and the chat path on bounded texts            *)
(*   SpecExtract extractStructuredBlocks on bounded texts                  *)
(*   SpecSubject sanitizeCommitMessage on bounded messages                 *)
(*   SpecIssueBlock  the @issue blocks of bounded replies                  *)
(***************************************************************************)
EXTENDS Integers, Sequences, FiniteSets, TLC

VARIABLES
    issues,     \* the issues table: issue id -> row, or Absent
    nextId,     \* number of ids handed out so far (uuid.New never repeats)
    clock,      \* the value time.Now() returns
    lastCall,   \* SpecSeq: the update_issue_status call that ran last, if any
    req,        \* Spec: HTTP handler goroutines, each at a statement
    disp,       \* Spec: Dispatcher loops, each at a statement
    runs,       \* Spec: AgentRunner goroutines
    hubBusy,    \* Spec: the hub loop is fanning a message out (not in select)
    budget,     \* Spec: requests the clients may still send
    claimed,    \* Spec: per issue, claims that returned it since it last
                \* became todo
    dialogs,    \* the dialogs table: dialog id -> row, or Absent
    calls,      \* SpecDialog: respondToDialog calls, each at a statement
    dlgEvents,  \* SpecDialog: per dialog, the dialog.responded events sent
                \* to the hub: their number and the last one's option
    sysMessages,\* SpecDialog: per dialog, the system messages posted
    successes,  \* SpecDialog: per dialog, the calls that returned a response
    lastReturn, \* SpecDialog: the call that returned last and its result
    fs,         \* SpecApply: the regular files, each a path and a content
    apPc,       \* SpecApply: the loop applyActionPlan is in
    apResult,   \* SpecApply: "ok" (a summary) or "error", once returned
    apFiles,    \* SpecApply: entries of plan.Files gone through
    apMuts,     \* SpecApply: entries of plan.Mutations gone through
    filesWritten,     \* SpecApply: the counter of the same name
    mutationsApplied, \* SpecApply: the counter of the same name
    written,    \* SpecApply: the paths os.WriteFile was called on
    escapeSeen, \* SpecApply: an entry gone through names a path that
                \* resolves outside the workspace
    hubClients, \* SpecHub: h.clients, the registered clients
    connState,  \* SpecHub: per connection "none", "open" or "closed"
    sendBuf,    \* SpecHub: per client the content of its send channel
    sendClosed, \* SpecHub: per client whether its send channel is closed
    delivered,  \* SpecHub: per client the messages its writePump wrote
    lastFrame,  \* SpecHub: per client the length of the last frame written
    pump,       \* SpecHub: per client where its readPump (rd) and its
                \* writePump (wr) are, and the writePump's n and the
                \* messages it has written to its frame writer
    nextMsg,    \* SpecHub: the number of messages the hub has received
    agPc,       \* SpecRun: the phase generateAgentResponse is in
    agIn,       \* SpecRun: the run's issueID and whether its message asks
                \* for a task
    agBlocks,   \* SpecRun: the structured blocks still to handle
    agEffects,  \* SpecRun: the rows written and events sent, in order
    agLocals,   \* SpecRun: responseText, planForMessage and applyErr of the
                \* run, and what its AI call yielded
    qIssues,    \* SpecSelect, SpecStats: the issues table a query reads
    qResult,    \* SpecSelect, SpecStats: what the query returned
    twPlan,     \* SpecTwice: the plan that is applied
    twFs,       \* SpecTwice: the regular files, as fs
    twHead,     \* SpecTwice: the workspace files of the last commit
    twResults,  \* SpecTwice: per application that has ended, its outcome
    twRepo,     \* SpecTwice: whether the workspace has a .git directory
    twIndex,    \* SpecTwice: the workspace files staged (git add -A)
    twDirs,     \* SpecTwice: the directories os.MkdirAll has made
    twRuns,     \* SpecTwice: per application, where it is in its code
    pfIn,       \* the specifications of pure functions: the input drawn
    pfOut,      \* the specifications of pure functions: what was returned
    chatPc,     \* SpecChat: per chat message, where handleChatMessage is,
                \* and the message's text
    replyPc,    \* SpecChat: per chat message, where the goroutine of
                \* agents.ProcessMessage is
    replyEvents,\* SpecChat: per chat message, the events its run has still
                \* to send
    hubLog,     \* SpecChat: the events the hub received, in order
    msgLog,     \* SpecChat: the rows of the messages table, in order
    offering,   \* SpecHubLoop: per sender, whether it is blocked in a send
                \* on hub.broadcast
    closes,     \* SpecHubLoop: per client, the calls of close(client.send)
    closedSends,\* SpecHubLoop: the sends on a closed client.send
    ctxDone,    \* SpecShutdown: the root context is cancelled
    loopPc,     \* SpecShutdown: per background loop, where it is; the
                \* statement of a tick the Dispatcher is at is in disp
    tickReady   \* SpecShutdown: per background loop, whether its ticker
                \* has a tick to deliver

storeVars == <<issues, nextId, clock>>

procVars == <<req, disp, runs, hubBusy, budget, claimed>>

issueVars == <<issues, nextId, lastCall, procVars>>

dialogVars == <<dialogs, calls, dlgEvents, sysMessages, successes, lastReturn>>

applyVars == <<fs, apPc, apResult, apFiles, apMuts, filesWritten,
               mutationsApplied, written, escapeSeen>>

hubVars == <<hubClients, connState, sendBuf, sendClosed, delivered, lastFrame,
            pump, nextMsg>>

runVars == <<agPc, agIn, agBlocks, agEffects, agLocals>>

queryVars == <<qIssues, qResult>>

twiceVars ==
    <<twPlan, twFs, twHead, twResults, twRepo, twIndex, twDirs, twRuns>>

pureVars == <<pfIn, pfOut>>

chatVars == <<chatPc, replyPc, replyEvents, hubLog, msgLog>>

hubLoopVars == <<offering, closes, closedSends>>

loopVars == <<ctxDone, loopPc, tickReady>>

netVars == <<chatVars, hubLoopVars, loopVars>>

sideVars ==
    <<dialogVars, applyVars, hubVars, runVars, queryVars, twiceVars, pureVars, netVars>>

vars == <<issues, nextId, clock, lastCall, req, disp, runs, hubBusy, budget,
          claimed, dialogVars, applyVars, hubVars, runVars, queryVars,
          twiceVars, pureVars, netVars>>

(***************************************************************************)
(* Bounds                                                                  *)
(***************************************************************************)
MaxIssues == 1
MaxClock == 3
MaxReqs == 2
MaxDisp == 2
MaxRuns == 2
MaxRequests == 3
MaxRows == 3

\* A table has room for MaxRows rows: the requests create MaxIssues of them
\* in the concurrent specifications, the runs the others.
IssueIds == 1..MaxRows
Reqs == 1..MaxReqs
Disps == 1..MaxDisp
Runs == 1..MaxRuns

(***************************************************************************)
(* Values                                                                  *)
(***************************************************************************)
Null == "NULL"
Absent == [absent |-> TRUE]
NoTime == 0

Statuses == {"proposed", "todo", "inProgress", "review", "done"}
Projects == {"default"}

(***************************************************************************)
(* Store statements.  Each operator is one SQL statement: it maps the      *)
(* table to the table after the statement.  A statement whose WHERE clause *)
(* matches no row leaves the table as it is.                               *)
(***************************************************************************)
Exists(tbl, id) == id \in DOMAIN tbl /\ tbl[id] # Absent

Coalesce_Overwrite(old, new) == new

Coalesce(old, new) == IF old # NoTime THEN old ELSE new

CoalesceAgent(old, new) == IF old # Null THEN old ELSE new

\* determineIssueAgent: the requested agent if any, else DetectAgent on the
\* trimmed "title description" text ("" when the text is empty or has no cue).
\* detected stands for DetectAgent's result on the issue's text.
determineIssueAgent(requestedAgent, detected) ==
    IF requestedAgent # "" THEN requestedAgent ELSE detected

\* INSERT INTO issues ... VALUES (..., assigned_agent_id, NULL, NULL, created_at)
\* (created_at is written here and by no other statement, and no statement
\* reads it: the column is left out of the row)
InsertIssue(tbl, id, project, priority, status, agentID, detected, now) ==
    [tbl EXCEPT ![id] =
        [project |-> project,
         priority |-> priority,
         status |-> status,
         detected |-> detected,
         assigned_agent_id |-> IF agentID # "" THEN agentID ELSE Null,
         queued_agent_id |-> Null,
         queued_at |-> NoTime,
         started_at |-> NoTime,
         completed_at |-> NoTime]]

\* UPDATE issues SET queued_agent_id = ?, queued_at = ? WHERE id = ?
queueIssue(tbl, issueID, agentID, now) ==
    IF agentID = "" THEN tbl
    ELSE IF ~Exists(tbl, issueID) THEN tbl
    ELSE [tbl EXCEPT ![issueID].queued_agent_id = agentID,
                     ![issueID].queued_at = now]

\* UPDATE issues SET status = ?, [queued_agent_id = NULL,]
\*   [started_at = COALESCE(started_at, ?) | completed_at = COALESCE(completed_at, ?)]
\* WHERE id = ?
UpdateStatusStmt(tbl, issueID, status, now) ==
    IF ~Exists(tbl, issueID) THEN tbl
    ELSE [tbl EXCEPT
            ![issueID].status = status,
            ![issueID].queued_agent_id =
                IF status # "todo" THEN Null ELSE @,
            ![issueID].started_at =
                IF status = "inProgress" THEN Coalesce(@, now) ELSE @,
            ![issueID].completed_at =
                IF status = "done" THEN Coalesce(@, now) ELSE @]

\* UPDATE issues SET assigned_agent_id = ? WHERE id = ?
AssignStmt(tbl, issueID, agentID) ==
    IF ~Exists(tbl, issueID) THEN tbl
    ELSE [tbl EXCEPT ![issueID].assigned_agent_id = agentID]

\* DELETE FROM issues WHERE id = ?
DeleteStmt(tbl, issueID) ==
    IF issueID \in DOMAIN tbl THEN [tbl EXCEPT ![issueID] = Absent] ELSE tbl

PriorityRank_MediumFirst(p) ==
    CASE p = "urgent" -> 1
      [] p = "high" -> 2
      [] p = "medium" -> 0
      [] OTHER -> 3

PriorityRank(p) ==
    CASE p = "urgent" -> 0
      [] p = "high" -> 1
      [] p = "medium" -> 2
      [] OTHER -> 3

\* WHERE status = 'todo' AND queued_agent_id IS NOT NULL
Eligible(tbl) ==
    {i \in DOMAIN tbl : /\ tbl[i] # Absent
                        /\ tbl[i].status = "todo"
                        /\ tbl[i].queued_agent_id # Null}

\* ORDER BY CASE priority ... END, queued_at ASC
OrderedBefore(tbl, i, j) ==
    \/ PriorityRank(tbl[i].priority) < PriorityRank(tbl[j].priority)
    \/ /\ PriorityRank(tbl[i].priority) = PriorityRank(tbl[j].priority)
       /\ tbl[i].queued_at < tbl[j].queued_at

\* The mutant's ORDER BY has no ELSE branch: a row of another priority
\* than urgent, high and medium is never returned.
ClaimSelect_NoElse(tbl) ==
    {i \in Eligible(tbl) :
        /\ tbl[i].priority \in {"urgent", "high", "medium"}
        /\ \A j \in Eligible(tbl) : ~OrderedBefore(tbl, j, i)}

\* The rows the SELECT ... LIMIT 1 of claimNextQueuedIssue may return: the
\* rows no other eligible row is ordered before (SQL leaves ties open).
ClaimSelect(tbl) ==
    {i \in Eligible(tbl) : \A j \in Eligible(tbl) : ~OrderedBefore(tbl, j, i)}

\* The mutant drops the status guard of the conditional UPDATE.
ClaimMatches_NoStatusGuard(tbl, issueID) == Exists(tbl, issueID)

\* WHERE id = ? AND status = 'todo'
ClaimMatches(tbl, issueID) ==
    Exists(tbl, issueID) /\ tbl[issueID].status = "todo"

\* The mutant leaves queued_agent_id as it is.
ClaimUpdateStmt_KeepsQueue(tbl, issueID, now) ==
    IF ~ClaimMatches(tbl, issueID) THEN tbl
    ELSE [tbl EXCEPT
            ![issueID].status = "inProgress",
            ![issueID].started_at = Coalesce(@, now),
            ![issueID].assigned_agent_id =
                CoalesceAgent(@, tbl[issueID].queued_agent_id)]

\* UPDATE issues SET status = 'inProgress', started_at = COALESCE(started_at, ?),
\*   assigned_agent_id = COALESCE(assigned_agent_id, queued_agent_id),
\*   queued_agent_id = NULL WHERE id = ? AND status = 'todo'
ClaimUpdateStmt(tbl, issueID, now) ==
    IF ~ClaimMatches(tbl, issueID) THEN tbl
    ELSE [tbl EXCEPT
            ![issueID].status = "inProgress",
            ![issueID].started_at = Coalesce(@, now),
            ![issueID].assigned_agent_id =
                CoalesceAgent(@, tbl[issueID].queued_agent_id),
            ![issueID].queued_agent_id = Null]

\* The mutant completes only an issue that is still in progress.
CompleteMatches_OnlyInProgress(tbl, issueID) ==
    Exists(tbl, issueID) /\ tbl[issueID].status = "inProgress"

\* WHERE id = ? AND status != 'done'
CompleteMatches(tbl, issueID) ==
    Exists(tbl, issueID) /\ tbl[issueID].status # "done"

\* UPDATE issues SET status = 'done', completed_at = COALESCE(completed_at, ?),
\*   queued_agent_id = NULL WHERE id = ? AND status != 'done'
CompleteStmt(tbl, issueID, now) ==
    IF ~CompleteMatches(tbl, issueID) THEN tbl
    ELSE [tbl EXCEPT
            ![issueID].status = "done",
            ![issueID].completed_at = Coalesce(@, now),
            ![issueID].queued_agent_id = Null]

(***************************************************************************)
(* Strings.  A string is the sequence of its characters, so that           *)
(* strings.HasPrefix, strings.Index and filepath.Clean work on characters  *)
(* as they do in the code.                                                 *)
(***************************************************************************)
Slash == "/"

\* strings.HasPrefix
HasPrefix(str, prefix) ==
    /\ Len(prefix) <= Len(str)
    /\ SubSeq(str, 1, Len(prefix)) = prefix

\* strings.Index: the 0-based position of the first occurrence, or -1
Index(str, sub) ==
    LET hits == {i \in 0..(Len(str) - Len(sub)) :
                    SubSeq(str, i + 1, i + Len(sub)) = sub}
    IN IF hits = {} THEN -1
       ELSE CHOOSE i \in hits : \A j \in hits : i <= j

\* strings.Contains
Contains(str, sub) == Index(str, sub) >= 0

\* strings.Replace(str, old, new, 1)
ReplaceFirst(str, old, new) ==
    LET i == Index(str, old)
    IN IF i < 0 THEN str
       ELSE SubSeq(str, 1, i) \o new \o SubSeq(str, i + Len(old) + 1, Len(str))

\* strings.TrimPrefix
TrimPrefix(str, prefix) ==
    IF HasPrefix(str, prefix) THEN SubSeq(str, Len(prefix) + 1, Len(str))
    ELSE str

\* unicode.IsSpace on the characters of Latin-1: tab, line feed, vertical
\* tab, form feed, carriage return, space, U+0085 and U+00A0
IsSpace(c) == c \in {"\t", "\n", "", "\f", "\r", " ", "", " "}

RECURSIVE TrimLeft(_)
TrimLeft(str) ==
    IF str # <<>> /\ IsSpace(Head(str)) THEN TrimLeft(Tail(str)) ELSE str

RECURSIVE TrimRight(_)
TrimRight(str) ==
    IF str # <<>> /\ IsSpace(str[Len(str)])
    THEN TrimRight(SubSeq(str, 1, Len(str) - 1)) ELSE str

\* strings.TrimSpace
TrimSpace(str) == TrimRight(TrimLeft(str))

\* the elements of a path between its separators (empty ones included)
RECURSIVE SplitPath(_, _)
SplitPath(str, cur) ==
    IF str = <<>> THEN <<cur>>
    ELSE IF Head(str) = Slash THEN <<cur>> \o SplitPath(Tail(str), <<>>)
    ELSE SplitPath(Tail(str), Append(cur, Head(str)))

RECURSIVE JoinPath(_)
JoinPath(elems) ==
    IF elems = <<>> THEN <<>>
    ELSE IF Len(elems) = 1 THEN elems[1]
    ELSE elems[1] \o <<Slash>> \o JoinPath(Tail(elems))

DotDot == <<".", ".">>
Dot == <<".">>

\* filepath.Clean, the element loop: empty and "." elements go, ".." removes
\* the element before it, or stays at the front of a path that is not rooted
RECURSIVE CleanElems(_, _, _)
CleanElems(elems, out, rooted) ==
    IF elems = <<>> THEN out
    ELSE LET e == Head(elems)
             rest == Tail(elems)
         IN IF e = <<>> \/ e = Dot THEN CleanElems(rest, out, rooted)
            ELSE IF e = DotDot
                 THEN IF Len(out) > 0 /\ out[Len(out)] # DotDot
                      THEN CleanElems(rest, SubSeq(out, 1, Len(out) - 1), rooted)
                      ELSE IF rooted THEN CleanElems(rest, out, rooted)
                      ELSE CleanElems(rest, Append(out, e), rooted)
            ELSE CleanElems(rest, Append(out, e), rooted)

IsRooted(path) == path # <<>> /\ Head(path) = Slash

\* filepath.Clean
Clean(path) ==
    IF path = <<>> THEN Dot
    ELSE LET rooted == IsRooted(path)
             out == JoinPath(CleanElems(SplitPath(path, <<>>), <<>>, rooted))
         IN IF rooted THEN <<Slash>> \o out
            ELSE IF out = <<>> THEN Dot ELSE out

\* filepath.Join of two non-empty elements
Join(a, b) == Clean(a \o <<Slash>> \o b)

\* the elements of a clean path ("." has none)
Elems(cleanPath) ==
    IF cleanPath = Dot \/ cleanPath = <<Slash>> THEN <<>>
    ELSE SplitPath(TrimPrefix(cleanPath, <<Slash>>), <<>>)

\* filepath.Dir of a clean path
Dir(cleanPath) ==
    LET es == Elems(cleanPath)
    IN IF Len(es) <= 1
       THEN (IF IsRooted(cleanPath) THEN <<Slash>> ELSE Dot)
       ELSE (IF IsRooted(cleanPath) THEN <<Slash>> ELSE <<>>)
            \o JoinPath(SubSeq(es, 1, Len(es) - 1))

\* filepath.Base of a clean path
Base(cleanPath) ==
    LET es == Elems(cleanPath)
    IN IF es = <<>> THEN cleanPath ELSE es[Len(es)]

RECURSIVE CommonLen(_, _)
CommonLen(a, b) ==
    IF a = <<>> \/ b = <<>> \/ Head(a) # Head(b) THEN 0
    ELSE 1 + CommonLen(Tail(a), Tail(b))

\* filepath.Rel past the n elements the two paths share: an error when the
\* base goes on with "..", else a ".." per element left of the base and
\* then the rest of the target
RelFrom(b, t, n) ==
    IF n < Len(b) /\ n < Len(t) /\ b[n + 1] = DotDot
    THEN [path |-> <<>>, err |-> TRUE]
    ELSE [path |-> JoinPath([i \in 1..(Len(b) - n) |-> DotDot]
                            \o SubSeq(t, n + 1, Len(t))),
          err |-> FALSE]

\* filepath.Rel on the elements of the base and of the target
RelElems(b, t) == RelFrom(b, t, CommonLen(b, t))

\* filepath.Rel(basepath, targpath): the path and whether an error is
\* returned.  Both paths are cleaned; "." as the base has no elements, "."
\* as the target is an element.  The error: one path is rooted and the
\* other is not, or the first element of the base that differs from the
\* target's is "..".
Rel(basepath, targpath) ==
    IF Clean(targpath) = Clean(basepath) THEN [path |-> Dot, err |-> FALSE]
    ELSE IF IsRooted(Clean(basepath)) # IsRooted(Clean(targpath))
         THEN [path |-> <<>>, err |-> TRUE]
    ELSE RelElems(Elems(Clean(basepath)),
                  IF Clean(targpath) = Dot THEN <<Dot>>
                  ELSE Elems(Clean(targpath)))

(***************************************************************************)
(* The WorkspaceMutator: applyActionPlan on a file system.  The file       *)
(* system is the set of its regular files; a directory exists when it is   *)
(* the workspace, or an ancestor of the workspace or of a file.            *)
(***************************************************************************)
\* projectfs.WorkspacePath(projectID): baseDir joined with the project id
Workspace == <<"w", Slash, "p">>

\* a file of the project whose id is "px", next to the workspace, and a
\* file inside the workspace
InitialFiles == {[path |-> <<"w", Slash, "p", "x", Slash, "a">>, content |-> <<"h">>],
                 [path |-> <<"w", Slash, "p", Slash, "a">>, content |-> <<"h">>]}

MaxPathSegs == 3
MaxPlanFiles == 1
MaxPlanMutations == 1

Segs == {DotDot, <<"p">>, <<"p", "x">>, <<"a">>, <<"w">>}

SegSeqs == UNION {[1..n -> Segs] : n \in 1..MaxPathSegs}

\* the paths a plan may name: empty, blank, relative and rooted
PlanPaths ==
    {<<>>, <<" ">>}
    \cup {JoinPath(ss) : ss \in SegSeqs}
    \cup {<<Slash>> \o JoinPath(ss) : ss \in SegSeqs}

NewContents == {<<"n">>}
Finds == {<<>>, <<"h">>}
Replaces == {<<"i">>}

EscapeError == <<"path escapes workspace">>

secureJoin(basePath, relative) ==
    LET cleanBase == Clean(basePath)
        cleanRel == Clean(relative)
        joined == Join(cleanBase, cleanRel)
    IN IF ~HasPrefix(joined, cleanBase) THEN EscapeError ELSE joined

normalizePlanPath(workspacePath, candidate) ==
    LET p == TrimSpace(candidate)
        cleanWorkspace == Clean(workspacePath)
        cleanCandidate == Clean(p)
        rel == Rel(cleanWorkspace, cleanCandidate)
        baseSegment == Base(cleanWorkspace)
        marker == <<Slash>> \o baseSegment \o <<Slash>>
        idx == Index(cleanCandidate, marker)
        trimmed == SubSeq(cleanCandidate, idx + Len(marker) + 1,
                          Len(cleanCandidate))
    IN IF p = <<>> THEN <<>>
       ELSE IF /\ HasPrefix(cleanCandidate, cleanWorkspace)
               /\ ~rel.err
               /\ rel.path # <<>>
            THEN rel.path
       ELSE IF baseSegment # <<>> /\ idx >= 0 /\ trimmed # <<>> THEN trimmed
       ELSE TrimPrefix(cleanCandidate, <<Slash>>)

\* the directories above a clean path, up to "." or "/"
Ancestors(cleanPath) ==
    LET es == Elems(cleanPath)
        root == IF IsRooted(cleanPath) THEN <<Slash>> ELSE <<>>
    IN {IF n = 0 THEN (IF IsRooted(cleanPath) THEN <<Slash>> ELSE Dot)
        ELSE root \o JoinPath(SubSeq(es, 1, n)) : n \in 0..(Len(es) - 1)}

IsFile(files, path) == \E e \in files : e.path = path

ContentOf(files, path) == (CHOOSE e \in files : e.path = path).content

IsDir(files, path) ==
    \/ path = Clean(Workspace)
    \/ path \in Ancestors(Clean(Workspace))
    \/ \E e \in files : path \in Ancestors(e.path)

\* os.MkdirAll fails when a regular file is in the way
MkdirAllFails(files, dir) ==
    \E a \in Ancestors(dir) \cup {dir} : IsFile(files, a)

\* os.WriteFile
WriteFile(files, path, content) ==
    {e \in files : e.path # path} \cup {[path |-> path, content |-> content]}

\* a clean path is the workspace or lies below it
Inside(cleanPath) ==
    LET w == Elems(Clean(Workspace))
        e == Elems(cleanPath)
    IN /\ IsRooted(cleanPath) = IsRooted(Clean(Workspace))
       /\ Len(e) >= Len(w)
       /\ SubSeq(e, 1, Len(w)) = w

ApplyInit ==
    /\ fs = InitialFiles
    /\ apPc = "files"
    /\ apResult = ""
    /\ apFiles = 0
    /\ apMuts = 0
    /\ filesWritten = 0
    /\ mutationsApplied = 0
    /\ written = {}
    /\ escapeSeen = FALSE

(***************************************************************************)
(* applyActionPlan on a whole plan, and CommitWorkspaceChanges             *)
(***************************************************************************)
NoPlan == [files |-> <<>>, mutations |-> <<>>]

\* AgentActionPlan.HasChanges
HasChanges(plan) == Len(plan.files) > 0 \/ Len(plan.mutations) > 0

\* The state of applyActionPlan between two entries: the files, whether it
\* has returned an error, and its two counters.
StartApply(files) == [fs |-> files, err |-> FALSE, nFiles |-> 0, nMuts |-> 0]

\* one iteration of the loop over plan.Files
applyFileEntry(st, file) ==
    LET cleanPath == normalizePlanPath(Workspace, file.path)
        absPath == secureJoin(Workspace, cleanPath)
    IN IF st.err \/ cleanPath = <<>> THEN st
       ELSE IF absPath = EscapeError THEN [st EXCEPT !.err = TRUE]
       ELSE IF MkdirAllFails(st.fs, Dir(absPath)) THEN [st EXCEPT !.err = TRUE]
       ELSE IF ~file.overwrite /\ (IsFile(st.fs, absPath) \/ IsDir(st.fs, absPath))
            THEN st
       ELSE IF IsDir(st.fs, absPath) THEN [st EXCEPT !.err = TRUE]
       ELSE [st EXCEPT !.fs = WriteFile(st.fs, absPath, file.content),
                       !.nFiles = @ + 1]

\* one iteration of the loop over plan.Mutations
applyMutationEntry(st, mutation) ==
    LET cleanPath == normalizePlanPath(Workspace, mutation.path)
        absPath == secureJoin(Workspace, cleanPath)
    IN IF \/ st.err
          \/ mutation.path = <<>>
          \/ mutation.find = <<>>
          \/ cleanPath = <<>>
       THEN st
       ELSE IF absPath = EscapeError THEN [st EXCEPT !.err = TRUE]
       ELSE IF ~IsFile(st.fs, absPath) THEN [st EXCEPT !.err = TRUE]
       ELSE IF ~Contains(ContentOf(st.fs, absPath), mutation.find) THEN st
       ELSE [st EXCEPT
                !.fs = WriteFile(st.fs, absPath,
                                 ReplaceFirst(ContentOf(st.fs, absPath),
                                              mutation.find, mutation.replace)),
                !.nMuts = @ + 1]

RECURSIVE applyFileEntries(_, _)
applyFileEntries(st, files) ==
    IF files = <<>> THEN st
    ELSE applyFileEntries(applyFileEntry(st, Head(files)), Tail(files))

RECURSIVE applyMutationEntries(_, _)
applyMutationEntries(st, mutations) ==
    IF mutations = <<>> THEN st
    ELSE applyMutationEntries(applyMutationEntry(st, Head(mutations)),
                              Tail(mutations))

applyActionPlan(files, plan) ==
    applyMutationEntries(applyFileEntries(StartApply(files), plan.files),
                         plan.mutations)

\* The .git directory of the workspace and the .gitignore file at its
\* root.
GitDir == Join(Workspace, <<".", "g", "i", "t">>)

GitIgnore == Join(Workspace, <<".", "g", "i", "t", "i", "g", "n", "o", "r", "e">>)

\* a clean path is the .git directory or lies below it
UnderGitDir(cleanPath) ==
    cleanPath = GitDir \/ HasPrefix(cleanPath, GitDir \o <<Slash>>)

\* name is a line of content
IsLine(content, name) ==
    \E i \in 1..(Len(content) - Len(name) + 1) :
        /\ SubSeq(content, i, i + Len(name) - 1) = name
        /\ i = 1 \/ content[i - 1] = "\n"
        /\ i + Len(name) - 1 = Len(content) \/ content[i + Len(name)] = "\n"

\* A path that .gitignore at the root of the workspace excludes: one of
\* its lines is the name of the file or of a directory above it within the
\* workspace.  (The lines of the model are plain names: patterns with a
\* slash, a wildcard, a leading '!' or '#', and .gitignore files below the
\* root are not part of it.)
Ignored(files, cleanPath) ==
    /\ IsFile(files, GitIgnore)
    /\ \E n \in (Len(Elems(Workspace)) + 1)..Len(Elems(cleanPath)) :
          IsLine(ContentOf(files, GitIgnore), Elems(cleanPath)[n])

\* What git status of the workspace looks at: the files below it, but
\* those of the .git directory and the untracked files that .gitignore
\* excludes.  A file is tracked when the index holds its path.
WorkTree(files, index) ==
    {e \in files :
        /\ Inside(e.path)
        /\ ~UnderGitDir(e.path)
        /\ \/ \E t \in index : t.path = e.path
           \/ ~Ignored(files, e.path)}

\* The tree of a workspace all of whose files are committed.
CommittedTree(files) ==
    {e \in files : Inside(e.path) /\ ~UnderGitDir(e.path)}

\* isTreeClean: git status --porcelain prints nothing when the work tree,
\* the index and HEAD agree
isTreeClean(files, index, head) ==
    WorkTree(files, index) = index /\ index = head

\* CommitWorkspaceChanges returns (nil, nil) before it runs git: no
\* workspace path, or os.Stat finds no .git in the workspace.  repo is
\* whether the workspace is a repository; a plan may have made a .git
\* directory or file of its own.
CommitSkipped(workspacePath, repo, files, dirs) ==
    \/ workspacePath = <<>>
    \/ /\ ~repo
       /\ GitDir \notin dirs
       /\ ~IsFile(files, GitDir)
       /\ ~IsDir(files, GitDir)

\* the applications of SpecTwice
TwiceRuns == {1, 2}

\* original is the content os.ReadFile gave the mutation under way
IdleTwice == [pc |-> "idle", i |-> 0, alone |-> TRUE, original |-> <<>>]

TwiceInit ==
    /\ twPlan = NoPlan
    /\ twFs = InitialFiles
    /\ twHead = CommittedTree(InitialFiles)
    /\ twResults = <<>>
    /\ twRepo = TRUE
    /\ twIndex = CommittedTree(InitialFiles)
    /\ twDirs = {}
    /\ twRuns = [k \in TwiceRuns |-> IdleTwice]

(***************************************************************************)
(* Dialogs.  Option texts are strings of characters; "Y" and "N" are the   *)
(* options of a dialog, "L" is a default that is not among them.           *)
(***************************************************************************)
MaxCalls == 2

\* respondToDialog touches the row of one dialog only, so one dialog is
\* followed
DialogIds == {1}
Calls == 1..MaxCalls
Users == {"u1", "u2"}

SelectedInputs == {<<" ">>, <<"y">>, <<"N", " ">>, <<"M">>}

\* The upper-case letters of Latin-1 (A-Z, U+00C0-U+00D6, U+00D8-U+00DE) and,
\* at the same places, their lower-case letters
UpperCase ==
    <<"A", "B", "C", "D", "E", "F", "G", "H", "I", "J", "K", "L", "M", "N",
      "O", "P", "Q", "R", "S", "T", "U", "V", "W", "X", "Y", "Z", "À", "Á",
      "Â", "Ã", "Ä", "Å", "Æ", "Ç", "È", "É", "Ê", "Ë", "Ì", "Í", "Î", "Ï",
      "Ð", "Ñ", "Ò", "Ó", "Ô", "Õ", "Ö", "Ø", "Ù", "Ú", "Û", "Ü", "Ý", "Þ">>

LowerCase ==
    <<"a", "b", "c", "d", "e", "f", "g", "h", "i", "j", "k", "l", "m", "n",
      "o", "p", "q", "r", "s", "t", "u", "v", "w", "x", "y", "z", "à", "á",
      "â", "ã", "ä", "å", "æ", "ç", "è", "é", "ê", "ë", "ì", "í", "î", "ï",
      "ð", "ñ", "ò", "ó", "ô", "õ", "ö", "ø", "ù", "ú", "û", "ü", "ý", "þ">>

LowerMap ==
    [c \in {UpperCase[i] : i \in 1..Len(UpperCase)} |->
        LowerCase[CHOOSE i \in 1..Len(UpperCase) : UpperCase[i] = c]]

\* unicode.ToLower on the characters of Latin-1
ToLower(c) == IF c \in DOMAIN LowerMap THEN LowerMap[c] ELSE c

\* strings.EqualFold
EqualFold(a, b) ==
    /\ Len(a) = Len(b)
    /\ \A i \in 1..Len(a) : ToLower(a[i]) = ToLower(b[i])

IdleCall ==
    [pc |-> "idle", dialog |-> 0, project |-> "", user |-> "", option |-> <<>>]

NoReturn == [dialog |-> 0, result |-> ""]

NoEvents == [count |-> 0, selectedOption |-> Null]

\* respondToDialog, from the defaulting of the selected option to the check
\* against the dialog's options: the option to store, or an error
ResolveSelection(options, defaultOption, selected) ==
    LET trimmedSel == TrimSpace(selected)
        withDefault == IF trimmedSel = <<>> THEN defaultOption ELSE trimmedSel
        selectedOption == IF withDefault = <<>> /\ Len(options) > 0
                          THEN options[1] ELSE withDefault
        hits == {i \in 1..Len(options) :
                    EqualFold(TrimSpace(options[i]), TrimSpace(selectedOption))}
        first == CHOOSE i \in hits : \A j \in hits : i <= j
    IN IF selectedOption = <<>>
       THEN [err |-> "selected option required", option |-> <<>>]
       ELSE IF Len(options) = 0 THEN [err |-> "", option |-> selectedOption]
       ELSE IF hits # {}
            THEN [err |-> "", option |-> TrimSpace(options[first])]
       ELSE IF defaultOption # <<>>
            THEN [err |-> "", option |-> defaultOption]
       ELSE [err |-> "invalid option selected", option |-> <<>>]

\* handleDialogBlock's INSERT
InsertDialog(tbl, id, project, options, defaultOption) ==
    [tbl EXCEPT ![id] = [project |-> project,
                         status |-> "open",
                         options |-> options,
                         default_option |-> defaultOption,
                         selected_option |-> Null,
                         responded_by |-> Null,
                         responded_at |-> NoTime]]

\* the WHERE clause of respondToDialog's UPDATE without AND status = 'open'
ResolveMatches_NoStatusGuard(tbl, dialogID) == Exists(tbl, dialogID)

\* WHERE id = ? AND status = 'open'
ResolveMatches(tbl, dialogID) ==
    /\ Exists(tbl, dialogID)
    /\ tbl[dialogID].status = "open"

\* UPDATE dialogs SET status = 'resolved', selected_option = ?,
\* responded_by = ?, responded_at = ? WHERE id = ? AND status = 'open'
ResolveStmt(tbl, dialogID, selectedOption, userID, now) ==
    IF ResolveMatches(tbl, dialogID)
    THEN [tbl EXCEPT ![dialogID].status = "resolved",
                     ![dialogID].selected_option = selectedOption,
                     ![dialogID].responded_by = userID,
                     ![dialogID].responded_at = now]
    ELSE tbl

DialogInit ==
    /\ dialogs = [d \in DialogIds |-> Absent]
    /\ calls = [c \in Calls |-> IdleCall]
    /\ dlgEvents = [d \in DialogIds |-> NoEvents]
    /\ sysMessages = [d \in DialogIds |-> 0]
    /\ successes = [d \in DialogIds |-> 0]
    /\ lastReturn = NoReturn

(***************************************************************************)
(* The hub (Hub.run) and the pumps of a websocket connection.  A message   *)
(* is named by the number of messages the hub had received when it came.   *)
(***************************************************************************)
MaxMsgs == 4

\* The capacity of a client's send channel (256 in wsHandler).
SendBufferCap == 2

\* Two connections: what the hub does to a client depends on that client's
\* channel alone, so one slow client and one other show every case.
ClientIds == {1, 2}

\* The default branch of the select around client.send <- message is taken
\* when the channel's buffer is full.
SendWouldBlock_OneEarly(buf) == Len(buf) >= SendBufferCap - 1

SendWouldBlock(buf) == Len(buf) >= SendBufferCap

\* w.Write(message): the message goes behind those the frame holds.  The
\* mutant puts it in front.
wWrite_InFront(frame, message) == <<message>> \o frame

wWrite(frame, message) == Append(frame, message)

\* The pumps of a connection wsHandler has not made yet.
NoPump == [rd |-> "none", wr |-> "none", n |-> 0, frame |-> <<>>]

HubInit ==
    /\ hubClients = {}
    /\ connState = [c \in ClientIds |-> "none"]
    /\ sendBuf = [c \in ClientIds |-> <<>>]
    /\ sendClosed = [c \in ClientIds |-> FALSE]
    /\ delivered = [c \in ClientIds |-> <<>>]
    /\ lastFrame = [c \in ClientIds |-> 0]
    /\ pump = [c \in ClientIds |-> NoPump]
    /\ nextMsg = 0

(***************************************************************************)
(* One run of generateAgentResponse: its phases and what each writes and   *)
(* sends.                                                                  *)
(***************************************************************************)
MaxBlocks == 2

\* A structured block: its type, and whether the field its handler requires
\* (an issue's title, a mention's message) is filled.
BlockKinds ==
    {[type |-> t, filled |-> f] :
        t \in {"issue", "mention", "dialog", "note"}, f \in BOOLEAN}

BlockSeqs == UNION {[1..n -> BlockKinds] : n \in 0..MaxBlocks}

\* What the AI call of a run yields.
AiOutcomes == {"noClient", "error", "empty", "output"}

\* The phases of generateAgentResponse in the order of its statements.
RunOrder_CompleteBeforeSend ==
    <<"blocks", "plan", "commit", "complete", "send", "propose", "done">>

RunOrder ==
    <<"blocks", "plan", "commit", "send", "complete", "propose", "done">>

PhaseAfter(pc) ==
    LET i == CHOOSE k \in 1..Len(RunOrder) : RunOrder[k] = pc
    IN  RunOrder[i + 1]

\* A row written or an event sent by a run.  name is the type of the event
\* given to marshalEvent, "issueRow", "messageRow" and "dialogRow" for an
\* INSERT into issues, messages and dialogs, "issueDone" for the UPDATE of
\* markIssueCompleted, "apply" and "commit".  kind is the message_type of
\* a message ("chat", "system"), the status of an issue ("todo",
\* "proposed", "done") and "" otherwise.
Effect(name, kind) == [name |-> name, kind |-> kind]

\* sendAgentMessage: the INSERT into messages and, when it succeeded, the
\* message.received event.
sendAgentMessage(messageType, ok) ==
    IF ok THEN <<Effect("messageRow", messageType),
                 Effect("message.received", messageType)>>
          ELSE <<>>

\* handleIssueBlock, handleMentionBlock and handleDialogBlock: the rows
\* and events of one block; ok is whether its INSERT succeeds.  A mention
\* is posted by sendAgentMessage as a message of type 'system'; the event
\* of a dialog is sent also when its INSERT failed.
BlockEffects(block, ok) ==
    CASE block.type = "issue" ->
            IF block.filled /\ ok
            THEN <<Effect("issueRow", "todo"), Effect("issue.created", "todo")>>
            ELSE <<>>
      [] block.type = "mention" ->
            IF block.filled THEN sendAgentMessage("system", ok) ELSE <<>>
      [] block.type = "dialog" ->
            IF ok THEN <<Effect("dialogRow", ""), Effect("dialog.requested", "")>>
                  ELSE <<Effect("dialog.requested", "")>>
      [] OTHER -> <<>>

\* proposeTask: the INSERT of an issue of status 'proposed' and, when it
\* succeeded, its issue.created event (requiresApproval true).
proposeTaskEffects(ok) ==
    IF ok THEN <<Effect("issueRow", "proposed"),
                 Effect("issue.created", "proposed")>>
          ELSE <<>>

NoRunInput == [issueID |-> "", createTask |-> FALSE]

\* The locals of generateAgentResponse at its start.  responseText is
\* "fallback" for getFallbackResponse, "applyError" for the text '...
\* produced changes but hit an error: ...', "summary" for the summary of
\* applyActionPlan and "processedOutput" for the cleaned output of the AI;
\* planForMessage is "nil", "empty" (no files and no mutations) or
\* "changes".
NoLocals ==
    [aiOutcome |-> "", responseText |-> "", planForMessage |-> "nil",
     applyErr |-> FALSE]

\* Where the run goes after the AI call: to the structured blocks and the
\* plan when it yielded text, straight to sendAgentMessage otherwise.
aiPhase(ai, blocks) ==
    IF ai = "output"
    THEN IF blocks # <<>> THEN "blocks" ELSE PhaseAfter("blocks")
    ELSE "send"

\* Where the run goes after applyActionPlan: to the commit when it
\* returned no error.  The mutant commits whatever it returned.
applyPhase_CommitAnyway(applyOk) == PhaseAfter("plan")

applyPhase(applyOk) == IF applyOk THEN PhaseAfter("plan") ELSE "send"

RunInit ==
    /\ agPc = "idle"
    /\ agIn = NoRunInput
    /\ agBlocks = <<>>
    /\ agEffects = <<>>
    /\ agLocals = NoLocals

(***************************************************************************)
(* The queries on the issues table, run on tables drawn from a bounded set *)
(***************************************************************************)
QueryIds == 1..MaxRows

NoResult == [kind |-> "none", id |-> 0, project |-> "", stats |-> <<>>]

\* A row of the issues table.
QRow(project, priority, status, assigned, queuedAgent, queuedAt, startedAt) ==
    [project |-> project,
     priority |-> priority,
     status |-> status,
     detected |-> "",
     assigned_agent_id |-> assigned,
     queued_agent_id |-> queuedAgent,
     queued_at |-> queuedAt,
     started_at |-> startedAt,
     completed_at |-> NoTime]

\* var defaultAgents
defaultAgents == <<"product_manager", "backend_architect", "frontend_developer">>

\* WHERE project_id = ? AND status = 'todo' AND queued_agent_id IS NOT NULL
QueuedRows(tbl, project) ==
    {i \in DOMAIN tbl : /\ tbl[i] # Absent
                        /\ tbl[i].project = project
                        /\ tbl[i].status = "todo"
                        /\ tbl[i].queued_agent_id # Null}

\* WHERE project_id = ? AND status = 'inProgress'
\*   AND assigned_agent_id IS NOT NULL
InProgressRows(tbl, project) ==
    {i \in DOMAIN tbl : /\ tbl[i] # Absent
                        /\ tbl[i].project = project
                        /\ tbl[i].status = "inProgress"
                        /\ tbl[i].assigned_agent_id # Null}

deriveAgentStatus(inProgress, queueDepth) ==
    IF inProgress > 0 THEN "working"
    ELSE IF queueDepth > 0 THEN "queued"
    ELSE "idle"

\* The agents collectQueueStatsForProject has an entry for when its loops
\* are over: the default agents, whatever the rows (ensureEntry in the
\* loop over defaultAgents), the agents of the two GROUP BY queries but
\* the empty string (if agentID == "" { continue }), and the agents of
\* the rows the third loop has read, the empty string included (it has no
\* such guard).  The mutant makes no entries for the default agents.
StatAgents_RowsOnly(tbl, project, read) ==
    ({tbl[i].queued_agent_id : i \in QueuedRows(tbl, project)} \ {""})
        \cup ({tbl[i].assigned_agent_id : i \in InProgressRows(tbl, project)}
                \ {""})
        \cup {tbl[i].assigned_agent_id : i \in read}

StatAgents(tbl, project, read) ==
    {defaultAgents[k] : k \in 1..Len(defaultAgents)}
        \cup ({tbl[i].queued_agent_id : i \in QueuedRows(tbl, project)} \ {""})
        \cup ({tbl[i].assigned_agent_id : i \in InProgressRows(tbl, project)}
                \ {""})
        \cup {tbl[i].assigned_agent_id : i \in read}

\* entry.QueueDepth and entry.InProgress of an agent: the COUNT(*) of its
\* group, 0 when it has no group or is the empty string.
GroupCount(tbl, rows, agentID, column) ==
    IF agentID = "" THEN 0
    ELSE Cardinality({i \in rows : tbl[i][column] = agentID})

\* The ids CurrentIssueID may get for an agent: the first of the rows the
\* third loop has read for it, ORDER BY started_at ASC (a NULL sorts
\* first, ties are open); 0, the empty string, when it has read none.
CurrentIssueChoices(tbl, read, agentID) ==
    IF \A i \in read : tbl[i].assigned_agent_id # agentID THEN {0}
    ELSE {i \in read :
            /\ tbl[i].assigned_agent_id = agentID
            /\ \A j \in read :
                  tbl[j].assigned_agent_id = agentID
                      => tbl[i].started_at <= tbl[j].started_at}

\* The entries of one agent.
StatEntries(tbl, project, read, agentID) ==
    {[project_id |-> project,
      agent_id |-> agentID,
      queue_depth |-> GroupCount(tbl, QueuedRows(tbl, project), agentID,
                                 "queued_agent_id"),
      in_progress |-> GroupCount(tbl, InProgressRows(tbl, project), agentID,
                                 "assigned_agent_id"),
      status |-> deriveAgentStatus(
                    GroupCount(tbl, InProgressRows(tbl, project), agentID,
                               "assigned_agent_id"),
                    GroupCount(tbl, QueuedRows(tbl, project), agentID,
                               "queued_agent_id")),
      current_issue_id |-> c] :
        c \in CurrentIssueChoices(tbl, read, agentID)}

RECURSIVE StatResults(_, _, _, _)
StatResults(tbl, project, read, agentSeq) ==
    IF agentSeq = <<>> THEN {<<>>}
    ELSE {<<e>> \o rest :
            e \in StatEntries(tbl, project, read, Head(agentSeq)),
            rest \in StatResults(tbl, project, read, Tail(agentSeq))}

\* The orders in which a range over a map may give its keys.
RECURSIVE MapOrders(_)
MapOrders(keys) ==
    IF keys = {} THEN {<<>>}
    ELSE UNION {{<<k>> \o rest : rest \in MapOrders(keys \ {k})} : k \in keys}

\* The lists collectQueueStatsForProject may return when its first two
\* queries succeeded: the default agents that have an entry, in their
\* order, then the other entries of the map.
StatLists(tbl, project, read) ==
    UNION {StatResults(tbl, project, read,
                       SelectSeq(defaultAgents,
                                 LAMBDA a : a \in StatAgents(tbl, project, read))
                       \o order) :
            order \in MapOrders(StatAgents(tbl, project, read)
                                 \ {defaultAgents[k] :
                                        k \in 1..Len(defaultAgents)})}

\* What collectQueueStatsForProject may return.  queueOk and inProgressOk
\* are whether the first and the second query and their Scans succeed:
\* when one fails the function returns nil and the error.  issueOk is
\* whether the third query succeeds, and unread the rows of it whose Scan
\* fails: a failed third query is skipped and a row that does not scan is
\* passed over.
collectQueueStatsForProject(tbl, project, queueOk, inProgressOk, issueOk, unread) ==
    IF ~queueOk \/ ~inProgressOk THEN {[list |-> <<>>, err |-> TRUE]}
    ELSE {[list |-> l, err |-> FALSE] :
            l \in StatLists(tbl, project,
                            IF issueOk
                            THEN InProgressRows(tbl, project) \ unread
                            ELSE {})}

QueryInit ==
    /\ qIssues = [i \in QueryIds |-> Absent]
    /\ qResult = NoResult

(***************************************************************************)
(* The agent detector (DetectAgent) and the chat path (analyzeAndRespond)  *)
(***************************************************************************)
\* strings.ToLower
LowerStr(str) == [i \in 1..Len(str) |-> ToLower(str[i])]

mentionTriggers ==
    <<[token |-> <<"@", "p", "m">>, agent |-> "product_manager"],
      [token |-> <<"@", "b", "a", "c", "k", "e", "n", "d">>, agent |-> "backend_architect"],
      [token |-> <<"@", "f", "r", "o", "n", "t", "e", "n", "d">>, agent |-> "frontend_developer"],
      [token |-> <<"@", "q", "a">>, agent |-> "qa_tester"],
      [token |-> <<"@", "d", "e", "v", "o", "p", "s">>, agent |-> "devops_engineer"]>>

keywordRules ==
    <<[keyword |-> <<"b", "a", "c", "k", "e", "n", "d">>, agent |-> "backend_architect",
       priority |-> 100, wordOnly |-> FALSE],
      [keyword |-> <<"b", "a", "c", "k", "-", "e", "n", "d">>, agent |-> "backend_architect",
       priority |-> 100, wordOnly |-> FALSE],
      [keyword |-> <<"a", "p", "i">>, agent |-> "backend_architect",
       priority |-> 90, wordOnly |-> TRUE],
      [keyword |-> <<"d", "a", "t", "a", "b", "a", "s", "e">>, agent |-> "backend_architect",
       priority |-> 90, wordOnly |-> FALSE],
      [keyword |-> <<"s", "c", "h", "e", "m", "a">>, agent |-> "backend_architect",
       priority |-> 80, wordOnly |-> FALSE],
      [keyword |-> <<"s", "e", "r", "v", "e", "r">>, agent |-> "backend_architect",
       priority |-> 75, wordOnly |-> FALSE],
      [keyword |-> <<"a", "r", "c", "h", "i", "t", "e", "c", "t", "u", "r", "e">>, agent |-> "backend_architect",
       priority |-> 70, wordOnly |-> FALSE],
      [keyword |-> <<"d", "e", "s", "i", "g", "n">>, agent |-> "backend_architect",
       priority |-> 65, wordOnly |-> FALSE],
      [keyword |-> <<"f", "r", "o", "n", "t", "e", "n", "d">>, agent |-> "frontend_developer",
       priority |-> 100, wordOnly |-> FALSE],
      [keyword |-> <<"f", "r", "o", "n", "t", "-", "e", "n", "d">>, agent |-> "frontend_developer",
       priority |-> 100, wordOnly |-> FALSE],
      [keyword |-> <<"u", "i">>, agent |-> "frontend_developer",
       priority |-> 90, wordOnly |-> TRUE],
      [keyword |-> <<"c", "o", "m", "p", "o", "n", "e", "n", "t">>, agent |-> "frontend_developer",
       priority |-> 80, wordOnly |-> FALSE],
      [keyword |-> <<"i", "n", "t", "e", "r", "f", "a", "c", "e">>, agent |-> "frontend_developer",
       priority |-> 75, wordOnly |-> FALSE],
      [keyword |-> <<"i", "m", "p", "l", "e", "m", "e", "n", "t">>, agent |-> "frontend_developer",
       priority |-> 60, wordOnly |-> FALSE],
      [keyword |-> <<"t", "e", "s", "t">>, agent |-> "qa_tester",
       priority |-> 85, wordOnly |-> FALSE],
      [keyword |-> <<"q", "a">>, agent |-> "qa_tester",
       priority |-> 85, wordOnly |-> TRUE],
      [keyword |-> <<"v", "e", "r", "i", "f", "y">>, agent |-> "qa_tester",
       priority |-> 70, wordOnly |-> FALSE],
      [keyword |-> <<"b", "u", "g">>, agent |-> "qa_tester",
       priority |-> 65, wordOnly |-> FALSE],
      [keyword |-> <<"r", "e", "g", "r", "e", "s", "s", "i", "o", "n">>, agent |-> "qa_tester",
       priority |-> 65, wordOnly |-> FALSE],
      [keyword |-> <<"a", "u", "t", "o", "m", "a", "t", "e", "d">>, agent |-> "qa_tester",
       priority |-> 60, wordOnly |-> FALSE],
      [keyword |-> <<"d", "e", "p", "l", "o", "y">>, agent |-> "devops_engineer",
       priority |-> 90, wordOnly |-> FALSE],
      [keyword |-> <<"d", "e", "p", "l", "o", "y", "m", "e", "n", "t">>, agent |-> "devops_engineer",
       priority |-> 90, wordOnly |-> FALSE],
      [keyword |-> <<"i", "n", "f", "r", "a", "s", "t", "r", "u", "c", "t", "u", "r", "e">>, agent |-> "devops_engineer",
       priority |-> 85, wordOnly |-> FALSE],
      [keyword |-> <<"p", "i", "p", "e", "l", "i", "n", "e">>, agent |-> "devops_engineer",
       priority |-> 80, wordOnly |-> FALSE],
      [keyword |-> <<"c", "i">>, agent |-> "devops_engineer",
       priority |-> 75, wordOnly |-> TRUE],
      [keyword |-> <<"c", "d">>, agent |-> "devops_engineer",
       priority |-> 75, wordOnly |-> TRUE],
      [keyword |-> <<"d", "o", "c", "k", "e", "r">>, agent |-> "devops_engineer",
       priority |-> 70, wordOnly |-> FALSE],
      [keyword |-> <<"r", "e", "q", "u", "i", "r", "e", "m", "e", "n", "t">>, agent |-> "product_manager",
       priority |-> 60, wordOnly |-> FALSE],
      [keyword |-> <<"f", "e", "a", "t", "u", "r", "e">>, agent |-> "product_manager",
       priority |-> 55, wordOnly |-> FALSE],
      [keyword |-> <<"n", "e", "e", "d">>, agent |-> "product_manager",
       priority |-> 50, wordOnly |-> FALSE],
      [keyword |-> <<"w", "a", "n", "t">>, agent |-> "product_manager",
       priority |-> 45, wordOnly |-> FALSE],
      [keyword |-> <<"b", "u", "i", "l", "d">>, agent |-> "product_manager",
       priority |-> 40, wordOnly |-> FALSE],
      [keyword |-> <<"c", "r", "e", "a", "t", "e">>, agent |-> "product_manager",
       priority |-> 35, wordOnly |-> FALSE],
      [keyword |-> <<"p", "l", "a", "n">>, agent |-> "product_manager",
       priority |-> 30, wordOnly |-> FALSE]>>

isAlphaNum(b) ==
    b \in {"a", "b", "c", "d", "e", "f", "g", "h", "i", "j", "k", "l", "m",
           "n", "o", "p", "q", "r", "s", "t", "u", "v", "w", "x", "y", "z",
           "0", "1", "2", "3", "4", "5", "6", "7", "8", "9"}

\* strings.Index(content[from:], keyword), as an index into content; from
\* counts from 0
IndexFrom(content, keyword, from) ==
    LET hits == {i \in from..(Len(content) - Len(keyword)) :
                    SubSeq(content, i + 1, i + Len(keyword)) = keyword}
    IN IF hits = {} THEN -1
       ELSE CHOOSE i \in hits : \A j \in hits : i <= j

\* the loop of containsWholeWord, at the occurrence at index
RECURSIVE wholeWordAt(_, _, _)
wholeWordAt(content, keyword, index) ==
    IF index = -1 THEN FALSE
    ELSE LET startOK == index = 0 \/ ~isAlphaNum(content[index])
             endIdx == index + Len(keyword)
             endOK == endIdx = Len(content) \/ ~isAlphaNum(content[endIdx + 1])
         IN IF startOK /\ endOK THEN TRUE
            ELSE wholeWordAt(content, keyword,
                             IndexFrom(content, keyword, index + 1))

containsWholeWord(content, keyword) ==
    wholeWordAt(content, keyword, IndexFrom(content, keyword, 0))

keywordMatches(content, rule) ==
    IF rule.wordOnly THEN containsWholeWord(content, rule.keyword)
    ELSE Contains(content, rule.keyword)

\* rule.priority > maxPriority; the mutant lets an equal priority replace
\* the rule selected before.
Outranks_OrEqual(priority, maxPriority) == priority >= maxPriority

Outranks(priority, maxPriority) == priority > maxPriority

\* the loop over keywordRules from rule k on
RECURSIVE selectRule(_, _, _, _)
selectRule(contentLower, k, selectedAgent, maxPriority) ==
    IF k > Len(keywordRules) THEN selectedAgent
    ELSE IF /\ keywordMatches(contentLower, keywordRules[k])
            /\ Outranks(keywordRules[k].priority, maxPriority)
         THEN selectRule(contentLower, k + 1, keywordRules[k].agent,
                         keywordRules[k].priority)
    ELSE selectRule(contentLower, k + 1, selectedAgent, maxPriority)

DetectAgent(content) ==
    LET contentLower == LowerStr(content)
        hits == {k \in 1..Len(mentionTriggers) :
                    Contains(contentLower, mentionTriggers[k].token)}
    IN IF hits # {}
       THEN mentionTriggers[CHOOSE k \in hits : \A j \in hits : k <= j].agent
       ELSE selectRule(contentLower, 1, "", -1)

\* The mentions and keywords maps of analyzeAndRespond in
\* agents/processor.go.
chatMentions ==
    {[token |-> <<"@", "p", "m">>, agent |-> "product_manager"],
      [token |-> <<"@", "b", "a", "c", "k", "e", "n", "d">>, agent |-> "backend_architect"],
      [token |-> <<"@", "f", "r", "o", "n", "t", "e", "n", "d">>, agent |-> "frontend_developer"]}

chatKeywords ==
    {[keyword |-> <<"r", "e", "q", "u", "i", "r", "e", "m", "e", "n", "t">>, agent |-> "product_manager"],
      [keyword |-> <<"f", "e", "a", "t", "u", "r", "e">>, agent |-> "product_manager"],
      [keyword |-> <<"a", "p", "i">>, agent |-> "backend_architect"],
      [keyword |-> <<"b", "a", "c", "k", "e", "n", "d">>, agent |-> "backend_architect"],
      [keyword |-> <<"d", "a", "t", "a", "b", "a", "s", "e">>, agent |-> "backend_architect"],
      [keyword |-> <<"u", "i">>, agent |-> "frontend_developer"],
      [keyword |-> <<"f", "r", "o", "n", "t", "e", "n", "d">>, agent |-> "frontend_developer"],
      [keyword |-> <<"c", "o", "m", "p", "o", "n", "e", "n", "t">>, agent |-> "frontend_developer"],
      [keyword |-> <<"n", "e", "e", "d">>, agent |-> "product_manager"],
      [keyword |-> <<"w", "a", "n", "t">>, agent |-> "product_manager"],
      [keyword |-> <<"b", "u", "i", "l", "d">>, agent |-> "product_manager"],
      [keyword |-> <<"c", "r", "e", "a", "t", "e">>, agent |-> "product_manager"],
      [keyword |-> <<"d", "e", "s", "i", "g", "n">>, agent |-> "backend_architect"],
      [keyword |-> <<"i", "m", "p", "l", "e", "m", "e", "n", "t">>, agent |-> "frontend_developer"]}

\* The agents analyzeAndRespond of agents/processor.go may trigger: it
\* ranges over the mentions map and takes the first token the text
\* contains, then likewise over the keywords map; the order of a range
\* over a map differs from run to run.  "" when nothing is contained.
analyzeAndRespond(content) ==
    LET contentLower == LowerStr(content)
        byMention == {m.agent : m \in {t \in chatMentions :
                                        Contains(contentLower, t.token)}}
        byKeyword == {r.agent : r \in {t \in chatKeywords :
                                        Contains(contentLower, t.keyword)}}
    IN IF byMention # {} THEN byMention
       ELSE IF byKeyword # {} THEN byKeyword
       ELSE {""}

(***************************************************************************)
(* Structured blocks in the output of an agent (extractStructuredBlocks)   *)
(***************************************************************************)
NewLine == "\n"

Dashes == <<"-", "-", "-">>

\* strings.Split(str, sep) for a separator of one character: the pieces
\* between the separators
SplitOn(str, sep) ==
    LET feeds == {i \in 1..Len(str) : str[i] = sep}
        starts == {0} \cup feeds
        stops == feeds \cup {Len(str) + 1}
    IN [k \in 1..Cardinality(starts) |->
           LET s == CHOOSE x \in starts :
                       Cardinality({y \in starts : y < x}) = k - 1
               e == CHOOSE x \in stops :
                       x > s /\ \A y \in stops : y > s => x <= y
           IN SubSeq(str, s + 1, e - 1)]

\* strings.Split(str, "\n")
Split(str) == SplitOn(str, NewLine)

\* splitCSV: the trimmed pieces between the commas that are not empty
splitCSV(value) ==
    IF value = <<>> THEN <<>>
    ELSE LET parts == SplitOn(value, ",")
             trimmed == [i \in 1..Len(parts) |-> TrimSpace(parts[i])]
         IN SelectSeq(trimmed, LAMBDA part : part # <<>>)

\* strings.Join(elems, "\n")
RECURSIVE JoinLines(_)
JoinLines(elems) ==
    IF elems = <<>> THEN <<>>
    ELSE IF Len(elems) = 1 THEN elems[1]
    ELSE elems[1] \o <<NewLine>> \o JoinLines(Tail(elems))

\* fields[key] = value
SetField(fields, key, value) ==
    [x \in DOMAIN fields \cup {key} |-> IF x = key THEN value ELSE fields[x]]

\* the loop of parseBlockFields; fields is the map built so far
RECURSIVE parseFieldLines(_, _, _)
parseFieldLines(lines, fields, currentKey) ==
    IF lines = <<>> THEN fields
    ELSE LET line == TrimSpace(Head(lines))
             colon == Index(line, <<":">>)
         IN IF line = <<>>
            THEN parseFieldLines(Tail(lines), fields, currentKey)
            ELSE IF colon >= 0
            THEN LET key == LowerStr(TrimSpace(SubSeq(line, 1, colon)))
                     value == TrimSpace(SubSeq(line, colon + 2, Len(line)))
                 IN parseFieldLines(Tail(lines), SetField(fields, key, value),
                                    key)
            ELSE IF currentKey # <<>>
            THEN parseFieldLines(Tail(lines),
                     SetField(fields, currentKey,
                              TrimSpace(fields[currentKey] \o <<" ">> \o line)),
                     currentKey)
            ELSE parseFieldLines(Tail(lines), fields, currentKey)

parseBlockFields(lines) == parseFieldLines(lines, <<>>, <<>>)

\* lines[start-1:], what is put back when no "---" follows the header at
\* start - 1 (start counts from 1 here, so the header is lines[start - 1]);
\* the mutant puts back the body only.
unterminatedRest_BodyOnly(lines, start) == SubSeq(lines, start, Len(lines))

unterminatedRest(lines, start) == SubSeq(lines, start - 1, Len(lines))

\* the loop of extractStructuredBlocks at line i (from 1)
RECURSIVE extractLoop(_, _, _, _)
extractLoop(lines, i, blocks, outputLines) ==
    IF i > Len(lines) THEN [outputLines |-> outputLines, blocks |-> blocks]
    ELSE LET trimmed == TrimSpace(lines[i])
         IN IF HasPrefix(trimmed, <<"@">>)
            THEN LET typeName == Tail(trimmed)
                     start == i + 1
                     ends == {j \in start..Len(lines) :
                                 TrimSpace(lines[j]) = Dashes}
                 IN IF ends = {}
                    THEN [outputLines |->
                              outputLines \o unterminatedRest(lines, start),
                          blocks |-> blocks]
                    ELSE LET end == CHOOSE j \in ends : \A k \in ends : j <= k
                         IN extractLoop(lines, end + 1,
                                Append(blocks,
                                    [typeName |-> LowerStr(TrimSpace(typeName)),
                                     fields |-> parseBlockFields(
                                         SubSeq(lines, start, end - 1))]),
                                outputLines)
            ELSE extractLoop(lines, i + 1, blocks, Append(outputLines, lines[i]))

extractStructuredBlocks(text) ==
    LET r == extractLoop(Split(text), 1, <<>>, <<>>)
    IN [clean |-> TrimSpace(JoinLines(r.outputLines)), blocks |-> r.blocks]

(***************************************************************************)
(* The subject of a commit (sanitizeCommitMessage)                         *)
(***************************************************************************)
maxLen == 72

DefaultSubject ==
    <<"A", "u", "t", "o", "m", "a", "t", "e", "d", " ",
      "w", "o", "r", "k", "s", "p", "a", "c", "e", " ",
      "u", "p", "d", "a", "t", "e">>

Ellipsis == <<".", ".", ".">>

\* len([]rune(first)) > maxLen; the mutant shortens a line of maxLen runes
\* as well.
TooLong_AtLimit(first) == Len(first) >= maxLen

TooLong(first) == Len(first) > maxLen

sanitizeCommitMessage(msg) ==
    LET trimmed == TrimSpace(msg)
        first == TrimSpace(Split(trimmed)[1])
    IN IF trimmed = <<>> THEN DefaultSubject
       ELSE IF TooLong(first) THEN SubSeq(first, 1, maxLen - 3) \o Ellipsis
       ELSE first

(***************************************************************************)
(* The @issue block of an agent's reply (handleIssueBlock)                 *)
(***************************************************************************)
\* fields[key]: the empty string for a key the map does not hold
Field(fields, key) == IF key \in DOMAIN fields THEN fields[key] ELSE <<>>

\* strings.ReplaceAll(str, old, new) for texts of one character
ReplaceAll(str, old, new) ==
    [i \in 1..Len(str) |-> IF str[i] = old THEN new ELSE str[i]]

\* The mutant passes the trimmed value through when it is not one of the
\* three.
normalizePriority_PassThrough(value) ==
    LET v == LowerStr(TrimSpace(value))
    IN CASE v = <<"u", "r", "g", "e", "n", "t">> -> "urgent"
         [] v = <<"h", "i", "g", "h">> -> "high"
         [] v = <<"l", "o", "w">> -> "low"
         [] v = <<>> -> "medium"
         [] OTHER -> "other"

normalizePriority(value) ==
    LET v == LowerStr(TrimSpace(value))
    IN CASE v = <<"u", "r", "g", "e", "n", "t">> -> "urgent"
         [] v = <<"h", "i", "g", "h">> -> "high"
         [] v = <<"l", "o", "w">> -> "low"
         [] OTHER -> "medium"

\* the cases of the switch of normalizeAgentIdentifier
agentAliases ==
    {<<<<"p", "m">>,
       "product_manager">>,
     <<<<"p", "r", "o", "d", "u", "c", "t", "m", "a", "n", "a", "g", "e", "r">>,
       "product_manager">>,
     <<<<"p", "r", "o", "d", "u", "c", "t", "_", "m", "a", "n", "a", "g", "e", "r">>,
       "product_manager">>,
     <<<<"b", "a", "c", "k", "e", "n", "d">>,
       "backend_architect">>,
     <<<<"b", "a", "c", "k", "e", "n", "d", "_", "a", "r", "c", "h", "i", "t", "e", "c", "t">>,
       "backend_architect">>,
     <<<<"b", "a", "c", "k", "e", "n", "d", "a", "r", "c", "h", "i", "t", "e", "c", "t">>,
       "backend_architect">>,
     <<<<"b", "a">>,
       "backend_architect">>,
     <<<<"f", "r", "o", "n", "t", "e", "n", "d">>,
       "frontend_developer">>,
     <<<<"f", "r", "o", "n", "t", "e", "n", "d", "_", "d", "e", "v", "e", "l", "o", "p", "e", "r">>,
       "frontend_developer">>,
     <<<<"f", "r", "o", "n", "t", "e", "n", "d", "d", "e", "v", "e", "l", "o", "p", "e", "r">>,
       "frontend_developer">>,
     <<<<"f", "d">>,
       "frontend_developer">>,
     <<<<"q", "a">>,
       "qa_tester">>,
     <<<<"t", "e", "s", "t", "e", "r">>,
       "qa_tester">>,
     <<<<"q", "a", "_", "t", "e", "s", "t", "e", "r">>,
       "qa_tester">>,
     <<<<"q", "a", "t", "e", "s", "t", "e", "r">>,
       "qa_tester">>,
     <<<<"d", "e", "v", "o", "p", "s">>,
       "devops_engineer">>,
     <<<<"d", "e", "v", "o", "p", "s", "_", "e", "n", "g", "i", "n", "e", "e", "r">>,
       "devops_engineer">>,
     <<<<"d", "e", "v", "o", "p", "s", "e", "n", "g", "i", "n", "e", "e", "r">>,
       "devops_engineer">>,
     <<<<"s", "r", "e">>,
       "devops_engineer">>}

normalizeAgentIdentifier(value) ==
    LET v == ReplaceAll(ReplaceAll(LowerStr(TrimSpace(value)), "-", "_"),
                        " ", "_")
        hits == {a \in agentAliases : a[1] = v}
    IN IF hits = {} THEN "" ELSE (CHOOSE a \in hits : TRUE)[2]

NoIssue == [made |-> FALSE]

\* handleIssueBlock with the issue queued for the agent that wrote the block
handleIssueBlock_QueuesCreator(agentType, fields, now, ok) ==
    LET title == Field(fields, <<"t", "i", "t", "l", "e">>)
        priority ==
            normalizePriority(
                Field(fields, <<"p", "r", "i", "o", "r", "i", "t", "y">>))
        normalized ==
            normalizeAgentIdentifier(
                Field(fields, <<"a", "s", "s", "i", "g", "n", "e", "e">>))
        assigneeID == IF normalized = "" THEN agentType ELSE normalized
        assigned == IF assigneeID # "" THEN assigneeID ELSE Null
        queueTarget == agentType
    IN IF title = <<>> \/ ~ok THEN NoIssue
       ELSE [made |-> TRUE,
             row |-> [title |-> title,
                      priority |-> priority,
                      status |-> "todo",
                      created_by |-> agentType,
                      created_by_type |-> "agent",
                      assigned_agent_id |-> assigned,
                      queued_agent_id |-> queueTarget,
                      queued_at |-> now],
             event |-> [type |-> "issue.created",
                        title |-> title,
                        priority |-> priority,
                        status |-> "todo",
                        createdBy |-> agentType,
                        assignee |-> assigneeID,
                        requiresApproval |-> FALSE]]

\* handleIssueBlock: the row its INSERT writes and the issue.created event
\* it sends; nothing for a block without a title, and on an error of the
\* INSERT (ok is FALSE).  The description and the tags are copied from the
\* fields and are left out.
handleIssueBlock(agentType, fields, now, ok) ==
    LET title == Field(fields, <<"t", "i", "t", "l", "e">>)
        priority ==
            normalizePriority(
                Field(fields, <<"p", "r", "i", "o", "r", "i", "t", "y">>))
        normalized ==
            normalizeAgentIdentifier(
                Field(fields, <<"a", "s", "s", "i", "g", "n", "e", "e">>))
        assigneeID == IF normalized = "" THEN agentType ELSE normalized
        assigned == IF assigneeID # "" THEN assigneeID ELSE Null
        queueTarget == IF assigned = Null THEN agentType ELSE assigned
    IN IF title = <<>> \/ ~ok THEN NoIssue
       ELSE [made |-> TRUE,
             row |-> [title |-> title,
                      priority |-> priority,
                      status |-> "todo",
                      created_by |-> agentType,
                      created_by_type |-> "agent",
                      assigned_agent_id |-> assigned,
                      queued_agent_id |-> queueTarget,
                      queued_at |-> now],
             event |-> [type |-> "issue.created",
                        title |-> title,
                        priority |-> priority,
                        status |-> "todo",
                        createdBy |-> agentType,
                        assignee |-> assigneeID,
                        requiresApproval |-> FALSE]]

\* The loop of handleStructuredBlocks over the issue blocks of a reply:
\* the rows inserted and the events sent, in order.  oks[k] is whether the
\* INSERT of block k succeeds.  Blocks of another type write no issue.
RECURSIVE issueBlocks(_, _, _, _, _)
issueBlocks(agentType, blocks, k, now, oks) ==
    IF k > Len(blocks) THEN [rows |-> <<>>, events |-> <<>>]
    ELSE LET rest == issueBlocks(agentType, blocks, k + 1, now, oks)
             r == IF blocks[k].typeName = <<"i", "s", "s", "u", "e">>
                  THEN handleIssueBlock(agentType, blocks[k].fields, now,
                                        oks[k])
                  ELSE NoIssue
         IN IF r.made
            THEN [rows |-> <<r.row>> \o rest.rows,
                  events |-> <<r.event>> \o rest.events]
            ELSE rest

(***************************************************************************)
(* The chat path: handleChatMessage and the goroutine it starts            *)
(***************************************************************************)
\* The statements of handleChatMessage after its INSERT, in their order:
\* the send on hub.broadcast, then go agents.ProcessMessage.  The mutant
\* starts the goroutine before it sends.
ChatOrder_SpawnFirst == <<"insert", "spawn", "send", "done">>

ChatOrder == <<"insert", "send", "spawn", "done">>

ChatAfter(pc) ==
    LET i == CHOOSE k \in 1..Len(ChatOrder) : ChatOrder[k] = pc
    IN  ChatOrder[i + 1]

\* strings.Contains(strings.ToLower(originalMessage), "create task") ||
\* ... "add task"
AsksForTask(text) ==
    \/ Contains(LowerStr(text),
                <<"c", "r", "e", "a", "t", "e", " ", "t", "a", "s", "k">>)
    \/ Contains(LowerStr(text), <<"a", "d", "d", " ", "t", "a", "s", "k">>)

RECURSIVE BlocksEffects(_, _, _)
BlocksEffects(blocks, oks, k) ==
    IF k > Len(blocks) THEN <<>>
    ELSE BlockEffects(blocks[k], oks[k]) \o BlocksEffects(blocks, oks, k + 1)

\* The rows a run on the chat path (issueID "") writes and the events it
\* sends, in the order of generateAgentResponse: the structured blocks of
\* the AI's output, the agent's message, the proposed task.
ChatRunEffects(text, ai, blocks, oks, sendOk, proposeOk) ==
    (IF ai = "output" THEN BlocksEffects(blocks, oks, 1) ELSE <<>>)
    \o sendAgentMessage("chat", sendOk)
    \o (IF AsksForTask(text) THEN proposeTaskEffects(proposeOk) ELSE <<>>)

IsRow(effect) ==
    effect.name \in {"issueRow", "dialogRow", "messageRow"}

NoOutput == [kind |-> "none"]

PureInit ==
    /\ pfIn = <<>>
    /\ pfOut = NoOutput

(***************************************************************************)
(* The chat path, the hub's channels and the background loops              *)
(***************************************************************************)
MaxChats == 1

\* the ids listProjectIDs returns to the worker loop
MaxProjects == 2

Chats == 1..MaxChats

IdleChat == [pc |-> "idle", text |-> <<>>]

\* the goroutines that send on hub.broadcast with a blocking send
Senders == {"chat", "runner", "dialog"}

\* the Dispatcher loop (startTaskProcessor) and the queue-snapshot worker
\* loop (startQueueWorker)
Loops == {"dispatcher", "worker"}

ChatInit ==
    /\ chatPc = [ch \in Chats |-> IdleChat]
    /\ replyPc = [ch \in Chats |-> "none"]
    /\ replyEvents = [ch \in Chats |-> <<>>]
    /\ hubLog = <<>>
    /\ msgLog = <<>>

HubLoopInit ==
    /\ offering = [s \in Senders |-> FALSE]
    /\ closes = [c \in ClientIds |-> 0]
    /\ closedSends = 0

\* pc: the statement the loop is at; left: the projects the worker's tick
\* has still to go through
AtTicker == [pc |-> "select", left |-> 0]

LoopInit ==
    /\ ctxDone = FALSE
    /\ loopPc = [l \in Loops |-> AtTicker]
    /\ tickReady = [l \in Loops |-> FALSE]

NetInit == ChatInit /\ HubLoopInit /\ LoopInit

(***************************************************************************)
(* Spec: concurrent execution.  Every store statement and every channel    *)
(* operation is one step; goroutines interleave between steps.             *)
(***************************************************************************)
\* pc: the call of the handler the request is in; at: the statement of
\* broadcastIssueChange or pushAgentStatusUpdate it is at, if it is in one
IdleReq ==
    [pc |-> "idle", at |-> "", id |-> 0, project |-> "", status |-> "",
     agent |-> "", detected |-> ""]

IdleDisp == [pc |-> "idle", at |-> "", id |-> 0, project |-> "", agent |-> ""]

\* issue: the issueID generateAgentResponse was given (0: none); prompt: the
\* claimed issue buildAgentTaskPrompt made the run's message of (0: none)
FreeRun ==
    [pc |-> "free", issue |-> 0, prompt |-> 0, project |-> "", agent |-> "",
     blocks |-> <<>>, plan |-> FALSE, task |-> FALSE]

NoCall == [id |-> 0, status |-> ""]

EmptyTable == [i \in IssueIds |-> Absent]

\* The inputs of the concurrent specification.  Issues are created without
\* a requested agent, so the assigned agent is the detected one or none;
\* requests create with "proposed" or "todo" and update to the statuses
\* that stamp a time or queue the issue.  The replies of the runs hold no
\* block or an @mention block, or they hold a plan.
ConcAgents == {"backend_architect"}
ConcPriorities == {"medium"}
ConcCreateStatuses == {"proposed", "todo"}
ConcUpdateStatuses == {"todo", "inProgress", "done"}
ConcCreateIds == 1..MaxIssues
ConcIds == 1..(MaxIssues + 1)
ConcReqs == Reqs
ConcDisps == {1}

\* the requests the clients send in the specifications that follow two
\* requests at once or two rows
ConcRequests == 2

\* the specifications that follow more rows, the clock or more Dispatchers
\* take the requests of one client, one after the other
StampReqs == {1}
TickReqs == {1}

\* The structured blocks of a reply, as extractStructuredBlocks returns
\* them: an @issue block with a title and an assignee, an @mention block
\* with a message and an @dialog block with two options.
IssueBlock ==
    [typeName |-> <<"i", "s", "s", "u", "e">>,
     fields |-> parseBlockFields(
        <<<<"t", "i", "t", "l", "e", ":", " ", "x">>,
          <<"a", "s", "s", "i", "g", "n", "e", "e", ":", " ", "Q", "A">>>>)]

MentionBlock ==
    [typeName |-> <<"m", "e", "n", "t", "i", "o", "n">>,
     fields |-> parseBlockFields(
        <<<<"m", "e", "s", "s", "a", "g", "e", ":", " ", "x">>>>)]

DialogBlock ==
    [typeName |-> <<"d", "i", "a", "l", "o", "g">>,
     fields |-> parseBlockFields(
        <<<<"o", "p", "t", "i", "o", "n", "s", ":", " ", "Y", ",", " ", "N">>,
          <<"d", "e", "f", "a", "u", "l", "t", ":", " ", "N">>>>)]

ConcBlockSeqs == {<<>>, <<MentionBlock>>}

\* (blocks, whether the reply holds a plan with changes) of a reply
ConcReplies == {<<bs, FALSE>> : bs \in ConcBlockSeqs} \cup {<<<<>>, TRUE>>}

\* startTaskProcessor calls agents.ProcessAgentTask(db, broadcast,
\* issue.ProjectID, issue.AgentID, prompt): the run of a claimed issue is
\* given the prompt and no issue id.
TaskIssueID(issueID) == 0

\* A send on hub.broadcast is received only while Hub.run waits in its select.
HubReceives == ~hubBusy

\* fetchIssue / fetchIssueForBroadcast: the SELECT fails on a row that is
\* gone
CanFetch(issueID) == Exists(issues, issueID)

\* broadcastIssueChange(issueID), the statement after fetchIssue (ok: the
\* query ran): the select/default send, or the return on an error
TrySendIssueUpdated(issueID, ok) ==
    IF ok /\ CanFetch(issueID) THEN "send" ELSE "return"

\* pushAgentStatusUpdate(projectID): the first statement after
\* if globalHub == nil || projectID == "" { return }
pushAgentStatusUpdate(projectID) ==
    IF projectID = "" THEN "return" ELSE "queueQuery"

\* collectQueueStatsForProject within pushAgentStatusUpdate and within the
\* worker loop: the statement after the query at `at` (ok: the query ran).
\* An error of the queued count or of the in-progress count is returned and
\* no snapshot is sent; an error of the current-issue query is passed over.
AfterStatsQuery(at, ok) ==
    CASE at = "queueQuery" -> IF ok THEN "inProgressQuery" ELSE "return"
      [] at = "inProgressQuery" -> IF ok THEN "issueQuery" ELSE "return"
      [] at = "issueQuery" -> "queueSnapshot"

\* select { case hub.broadcast <- data: default: }: the event is received if
\* Hub.run waits in its select, which then fans it out, and is dropped
\* otherwise
TrySend == hubBusy' = TRUE

\* Goroutines of one kind are interchangeable: a new request runs in the
\* first idle one.
IsFirstIdleReq(r) ==
    /\ req[r].pc = "idle"
    /\ \A q \in Reqs : q < r => req[q].pc # "idle"

IsFirstIdleDisp(d) ==
    /\ disp[d].pc = "idle"
    /\ \A e \in Disps : e < d => disp[e].pc # "idle"

\* no other request is in flight
OthersIdle(r) == \A q \in Reqs : q # r => req[q].pc = "idle"

HasFreeRun == \E k \in Runs : runs[k].pc = "free"

FreeRunSlot == CHOOSE k \in Runs :
    runs[k].pc = "free" /\ \A j \in Runs : j < k => runs[j].pc # "free"

\* the variables of neither the issues nor the dialogs
otherThanDialogs ==
    <<applyVars, hubVars, runVars, queryVars, twiceVars, pureVars, netVars>>

\* The process has started: the tables are empty, no goroutine is under
\* way, and the clients will send up to `requests` requests
Start(requests) ==
    /\ issues = EmptyTable
    /\ nextId = 0
    /\ clock = 1
    /\ lastCall = NoCall
    /\ req = [r \in Reqs |-> IdleReq]
    /\ disp = [d \in Disps |-> IdleDisp]
    /\ runs = [k \in Runs |-> FreeRun]
    /\ hubBusy = FALSE
    /\ budget = requests
    /\ claimed = [i \in IssueIds |-> 0]
    /\ DialogInit
    /\ ApplyInit
    /\ HubInit
    /\ RunInit
    /\ QueryInit
    /\ TwiceInit
    /\ PureInit
    /\ NetInit

Init == Start(ConcRequests)

\* Hub.run: the fan-out to the clients ends and the loop is back in select
HubLoop ==
    /\ hubBusy
    /\ hubBusy' = FALSE
    /\ UNCHANGED <<storeVars, lastCall, req, disp, runs, budget, claimed>>
    /\ UNCHANGED sideVars

\* time passes
Tick ==
    /\ clock < MaxClock
    /\ clock' = clock + 1
    /\ UNCHANGED <<issues, nextId, lastCall, procVars>>
    /\ UNCHANGED sideVars

---------------------------------------------------------------------------
\* The request is at statement `at` of the call `pc` of its handler
InCall(rq, pc, at) == [rq EXCEPT !.pc = pc, !.at = at]

\* The request after the call it is in has returned.  createIssueHandler
\* calls pushAgentStatusUpdate when it has queued the issue, then
\* broadcastIssueChange, then responds; updateIssueStatusHandler calls
\* broadcastIssueChange, then pushAgentStatusUpdate, then responds.
ReqReturn(rq) ==
    CASE rq.pc = "c_push" -> InCall(rq, "c_bcast", "fetchIssue")
      [] rq.pc = "u_bcast" ->
            IF pushAgentStatusUpdate(rq.project) = "return" THEN IdleReq
            ELSE InCall(rq, "u_push", pushAgentStatusUpdate(rq.project))
      [] OTHER -> IdleReq

\* The request after a statement of the call it is in: at the statement
\* that follows, or past the call when the call returns
ReqGoes(rq, at) ==
    IF at = "return" THEN ReqReturn(rq) ELSE [rq EXCEPT !.at = at]

\* Request r goes on as next.  An update_issue_status call that has
\* responded is the call that ended last, unless another request is in
\* flight.
ReqStep(r, next) ==
    /\ req' = [req EXCEPT ![r] = next]
    /\ lastCall' = IF next = IdleReq /\ req[r].pc \in {"u_bcast", "u_push"}
                   THEN IF OthersIdle(r)
                        THEN [id |-> req[r].id, status |-> req[r].status]
                        ELSE NoCall
                   ELSE lastCall

\* createIssueHandler: the defaults of the project and the status,
\* determineIssueAgent, uuid.New (id) and the INSERT
CreateInsert(r, id, project, priority, status, requested, detected) ==
    /\ IsFirstIdleReq(r)
    /\ budget > 0
    /\ id = nextId + 1
    /\ LET projectID == IF project = "" THEN "default" ELSE project
           reqStatus == IF status = "" THEN "proposed" ELSE status
           agentID == determineIssueAgent(requested, detected)
       IN /\ issues' = InsertIssue(issues, id, projectID, priority, reqStatus,
                                   agentID, detected, clock)
          /\ req' = [req EXCEPT ![r] =
                       [pc |-> IF reqStatus = "todo" /\ agentID # ""
                               THEN "c_queue" ELSE "c_bcast",
                        at |-> IF reqStatus = "todo" /\ agentID # ""
                               THEN "" ELSE "fetchIssue",
                        id |-> id, project |-> projectID,
                        status |-> reqStatus, agent |-> agentID,
                        detected |-> detected]]
    /\ nextId' = id
    /\ budget' = budget - 1
    /\ lastCall' = NoCall
    /\ UNCHANGED <<clock, disp, runs, hubBusy, claimed>>
    /\ UNCHANGED sideVars

\* createIssueHandler: queueIssue(issueID, agentID); pushAgentStatusUpdate
\* is entered
CreateQueue(r) ==
    /\ req[r].pc = "c_queue"
    /\ issues' = queueIssue(issues, req[r].id, req[r].agent, clock)
    /\ req' = [req EXCEPT ![r] =
                 IF pushAgentStatusUpdate(@.project) = "return"
                 THEN InCall(@, "c_bcast", "fetchIssue")
                 ELSE InCall(@, "c_push", pushAgentStatusUpdate(@.project))]
    /\ lastCall' = NoCall
    /\ UNCHANGED <<nextId, clock, disp, runs, hubBusy, budget, claimed>>
    /\ UNCHANGED sideVars

---------------------------------------------------------------------------
\* updateIssueStatusHandler: 400 when the status is empty; SELECT
\* project_id, title, description, assigned_agent_id; 404 when no row.
\* lastCall stays when the request repeats the call that ended last and no
\* other request is in flight.
UpdateRead(r, issueID, status) ==
    /\ IsFirstIdleReq(r)
    /\ budget > 0
    /\ budget' = budget - 1
    /\ req' = [req EXCEPT ![r] =
                 IF status # "" /\ Exists(issues, issueID)
                 THEN [pc |-> "u_write", at |-> "", id |-> issueID,
                       project |-> issues[issueID].project,
                       status |-> status,
                       agent |-> IF issues[issueID].assigned_agent_id = Null
                                 THEN ""
                                 ELSE issues[issueID].assigned_agent_id,
                       detected |-> issues[issueID].detected]
                 ELSE IdleReq]
    /\ lastCall' = IF /\ lastCall = [id |-> issueID, status |-> status]
                      /\ status # "" /\ Exists(issues, issueID)
                      /\ OthersIdle(r)
                   THEN lastCall ELSE NoCall
    /\ UNCHANGED <<storeVars, disp, runs, hubBusy, claimed>>
    /\ UNCHANGED sideVars

\* updateIssueStatusHandler: the UPDATE of status and timestamps
UpdateWrite(r) ==
    /\ req[r].pc = "u_write"
    /\ LET id == req[r].id
           s == req[r].status
           hit == Exists(issues, id)
       IN /\ issues' = UpdateStatusStmt(issues, id, s, clock)
          /\ claimed' = IF hit /\ s = "todo" /\ issues[id].status # "todo"
                        THEN [claimed EXCEPT ![id] = 0] ELSE claimed
          /\ req' = [req EXCEPT ![r] =
                       IF s # "todo" THEN InCall(@, "u_bcast", "fetchIssue")
                       ELSE IF req[r].agent # "" THEN InCall(@, "u_queue", "")
                       ELSE InCall(@, "u_detect", "")]
    /\ UNCHANGED <<nextId, clock, lastCall, disp, runs, hubBusy, budget>>
    /\ UNCHANGED sideVars

\* updateIssueStatusHandler: no assigned agent was read: determineIssueAgent
\* on the title and description read with it and, if it names an agent,
\* UPDATE issues SET assigned_agent_id
UpdateAssign(r) ==
    /\ req[r].pc = "u_detect"
    /\ LET id == req[r].id
           agentID == determineIssueAgent("", req[r].detected)
       IN /\ issues' = IF agentID # "" THEN AssignStmt(issues, id, agentID)
                       ELSE issues
          /\ req' = [req EXCEPT ![r].pc = "u_queue", ![r].agent = agentID]
    /\ UNCHANGED <<nextId, clock, lastCall, disp, runs, hubBusy, budget, claimed>>
    /\ UNCHANGED sideVars

\* updateIssueStatusHandler: queueIssue(issueID, agentID);
\* broadcastIssueChange is entered
UpdateQueue(r) ==
    /\ req[r].pc = "u_queue"
    /\ issues' = queueIssue(issues, req[r].id, req[r].agent, clock)
    /\ req' = [req EXCEPT ![r] = InCall(@, "u_bcast", "fetchIssue")]
    /\ UNCHANGED <<nextId, clock, lastCall, disp, runs, hubBusy, budget, claimed>>
    /\ UNCHANGED sideVars

\* deleteIssueHandler
DeleteIssue(r, issueID) ==
    /\ IsFirstIdleReq(r)
    /\ budget > 0
    /\ budget' = budget - 1
    /\ Exists(issues, issueID)
    /\ issues' = DeleteStmt(issues, issueID)
    /\ lastCall' = NoCall
    /\ UNCHANGED <<nextId, clock, req, disp, runs, hubBusy, claimed>>
    /\ UNCHANGED sideVars

---------------------------------------------------------------------------
\* broadcastIssueChange of a request: issue, err := fetchIssue(issueID);
\* on an error it returns
ReqFetchIssue(r, ok) ==
    /\ req[r].pc \in {"c_bcast", "u_bcast"}
    /\ req[r].at = "fetchIssue"
    /\ ReqStep(r, ReqGoes(req[r], TrySendIssueUpdated(req[r].id, ok)))
    /\ UNCHANGED <<storeVars, disp, runs, hubBusy, budget, claimed>>
    /\ UNCHANGED sideVars

\* broadcastIssueChange of a request: the select/default send of the
\* issue.updated event
ReqSendIssueUpdated(r) ==
    /\ req[r].pc \in {"c_bcast", "u_bcast"}
    /\ req[r].at = "send"
    /\ TrySend
    /\ ReqStep(r, ReqReturn(req[r]))
    /\ UNCHANGED <<storeVars, disp, runs, budget, claimed>>
    /\ UNCHANGED sideVars

\* pushAgentStatusUpdate of a request: the query collectQueueStatsForProject
\* is at, one of its three
ReqStatsQuery(r, ok) ==
    /\ req[r].pc \in {"c_push", "u_push"}
    /\ req[r].at \in {"queueQuery", "inProgressQuery", "issueQuery"}
    /\ ReqStep(r, ReqGoes(req[r], AfterStatsQuery(req[r].at, ok)))
    /\ UNCHANGED <<storeVars, disp, runs, hubBusy, budget, claimed>>
    /\ UNCHANGED sideVars

\* pushAgentStatusUpdate of a request: broadcastAgentQueueSnapshot, then
\* broadcastAgentStatusSnapshot, each one select/default send
ReqSendSnapshot(r) ==
    /\ req[r].pc \in {"c_push", "u_push"}
    /\ req[r].at \in {"queueSnapshot", "statusSnapshot"}
    /\ TrySend
    /\ ReqStep(r, IF req[r].at = "queueSnapshot"
                  THEN [req[r] EXCEPT !.at = "statusSnapshot"]
                  ELSE ReqReturn(req[r]))
    /\ UNCHANGED <<storeVars, disp, runs, budget, claimed>>
    /\ UNCHANGED sideVars

---------------------------------------------------------------------------
\* go processor.generateAgentResponse(projectID, agentType, issueID, ...)
SpawnRun(issueID, prompt, project, agentType) ==
    runs' = [runs EXCEPT ![FreeRunSlot] =
               [FreeRun EXCEPT !.pc = "generate", !.issue = issueID,
                               !.prompt = prompt, !.project = project,
                               !.agent = agentType]]

\* ProcessAgentTask: if agentType == "" || content == "" { return }, then
\* the go statement.  prompt: the claimed issue the content was made of;
\* buildAgentTaskPrompt never yields an empty content.
ProcessAgentTask(project, agentType, issueID, prompt) ==
    IF agentType = "" THEN UNCHANGED runs
    ELSE SpawnRun(issueID, prompt, project, agentType)

\* A chat message on which analyzeAndRespond detects agentType:
\* go p.generateAgentResponse(projectID, agent, "", "", content).  The
\* project is the one the message names, or none.
ChatRun(project, agentType) ==
    /\ budget > 0
    /\ budget' = budget - 1
    /\ HasFreeRun
    /\ SpawnRun(0, 0, project, agentType)
    /\ UNCHANGED <<storeVars, lastCall, req, disp, hubBusy, claimed>>
    /\ UNCHANGED sideVars

\* A caller of the ProcessAgentTask that takes the issue (projectID,
\* agentType, issueID, issueTitle, content) hands it the id of an issue
IssueRun(project, agentType, issueID) ==
    /\ budget > 0
    /\ budget' = budget - 1
    /\ HasFreeRun
    /\ ProcessAgentTask(project, agentType, issueID, 0)
    /\ UNCHANGED <<storeVars, lastCall, req, disp, hubBusy, claimed>>
    /\ UNCHANGED sideVars

\* startTaskProcessor, case <-ticker.C: the SELECT of claimNextQueuedIssue.
\* With no eligible row the tick ends where it began.
DispSelect(d) ==
    /\ IsFirstIdleDisp(d)
    /\ \E id \in ClaimSelect(issues) :
          disp' = [disp EXCEPT ![d] =
                     [pc |-> "selected", at |-> "", id |-> id,
                      project |-> issues[id].project,
                      agent |-> issues[id].queued_agent_id]]
    /\ UNCHANGED <<storeVars, lastCall, req, runs, hubBusy, budget, claimed>>
    /\ UNCHANGED sideVars

\* claimNextQueuedIssue: the conditional UPDATE.  Zero rows: nil is
\* returned and the tick ends.  One row: the issue read by the SELECT is
\* returned, ProcessAgentTask starts the run and broadcastIssueChange is
\* entered.
DispClaim(d) ==
    /\ disp[d].pc = "selected"
    /\ LET id == disp[d].id
       IN IF ClaimMatches(issues, id)
          THEN /\ HasFreeRun
               /\ issues' = ClaimUpdateStmt(issues, id, clock)
               /\ claimed' = [claimed EXCEPT ![id] = @ + 1]
               /\ ProcessAgentTask(disp[d].project, disp[d].agent,
                                   TaskIssueID(id), id)
               /\ disp' = [disp EXCEPT ![d] = InCall(@, "d_bcast", "fetchIssue")]
               /\ lastCall' = NoCall
          ELSE /\ disp' = [disp EXCEPT ![d] = IdleDisp]
               /\ UNCHANGED <<issues, claimed, runs, lastCall>>
    /\ UNCHANGED <<nextId, clock, req, hubBusy, budget>>
    /\ UNCHANGED sideVars

\* The Dispatcher after the call it is in has returned: startTaskProcessor
\* calls broadcastIssueChange(issue.ID), then
\* pushAgentStatusUpdate(issue.ProjectID), and is back at its ticker
DispReturn(dp) ==
    IF dp.pc = "d_bcast" /\ pushAgentStatusUpdate(dp.project) # "return"
    THEN InCall(dp, "d_push", pushAgentStatusUpdate(dp.project))
    ELSE IdleDisp

DispGoes(dp, at) ==
    IF at = "return" THEN DispReturn(dp) ELSE [dp EXCEPT !.at = at]

\* broadcastIssueChange of the Dispatcher: fetchIssue; on an error it
\* returns
DispFetchIssue(d, ok) ==
    /\ disp[d].pc = "d_bcast"
    /\ disp[d].at = "fetchIssue"
    /\ disp' = [disp EXCEPT ![d] =
                  DispGoes(@, TrySendIssueUpdated(@.id, ok))]
    /\ UNCHANGED <<storeVars, lastCall, req, runs, hubBusy, budget, claimed>>
    /\ UNCHANGED sideVars

\* broadcastIssueChange of the Dispatcher: the select/default send of the
\* issue.updated event
DispSendIssueUpdated(d) ==
    /\ disp[d].pc = "d_bcast"
    /\ disp[d].at = "send"
    /\ TrySend
    /\ disp' = [disp EXCEPT ![d] = DispReturn(@)]
    /\ UNCHANGED <<storeVars, lastCall, req, runs, budget, claimed>>
    /\ UNCHANGED sideVars

\* pushAgentStatusUpdate of the Dispatcher: the query
\* collectQueueStatsForProject is at, one of its three
DispStatsQuery(d, ok) ==
    /\ disp[d].pc = "d_push"
    /\ disp[d].at \in {"queueQuery", "inProgressQuery", "issueQuery"}
    /\ disp' = [disp EXCEPT ![d] = DispGoes(@, AfterStatsQuery(@.at, ok))]
    /\ UNCHANGED <<storeVars, lastCall, req, runs, hubBusy, budget, claimed>>
    /\ UNCHANGED sideVars

\* pushAgentStatusUpdate of the Dispatcher: broadcastAgentQueueSnapshot,
\* then broadcastAgentStatusSnapshot, each one select/default send
DispSendSnapshot(d) ==
    /\ disp[d].pc = "d_push"
    /\ disp[d].at \in {"queueSnapshot", "statusSnapshot"}
    /\ TrySend
    /\ disp' = [disp EXCEPT ![d] =
                  IF @.at = "queueSnapshot"
                  THEN [@ EXCEPT !.at = "statusSnapshot"]
                  ELSE DispReturn(@)]
    /\ UNCHANGED <<storeVars, lastCall, req, runs, budget, claimed>>
    /\ UNCHANGED sideVars

---------------------------------------------------------------------------
\* Where a run goes once its structured blocks are handled: to
\* applyActionPlan when the reply parsed to a plan that has changes and the
\* workspace is ready, to sendAgentMessage otherwise
AfterBlocks(withPlan) == IF withPlan THEN "applying" ELSE "message"

\* Where a run goes after sendAgentMessage: to markIssueCompleted when it
\* was given an issue, then to proposeTask when its message asks for a
\* task
AfterMessage(run) ==
    IF run.issue # 0 THEN [run EXCEPT !.pc = "complete"]
    ELSE IF run.task THEN [run EXCEPT !.pc = "propose"]
    ELSE FreeRun

AfterComplete(run) ==
    IF run.task THEN [run EXCEPT !.pc = "propose"] ELSE FreeRun

\* generateAgentResponse: ensureWorkspace, the model call and
\* extractStructuredBlocks.  blocks: the blocks of the reply (none when the
\* call failed); withPlan: the reply parses to a plan that has changes and
\* the workspace is ready; createTask: the message holds "create task" or
\* "add task".
RunGenerate(k, blocks, withPlan, createTask) ==
    /\ runs[k].pc = "generate"
    /\ runs' = [runs EXCEPT ![k] =
                  [@ EXCEPT !.pc = IF blocks # <<>> THEN "blocks"
                                   ELSE AfterBlocks(withPlan),
                            !.blocks = blocks,
                            !.plan = withPlan,
                            !.task = createTask]]
    /\ UNCHANGED <<storeVars, lastCall, req, disp, hubBusy, budget, claimed>>
    /\ UNCHANGED sideVars

\* the run is through with the block at the head of its list
NextBlock(run, sends) ==
    IF sends THEN [run EXCEPT !.pc = "block_ev"]
    ELSE [run EXCEPT !.blocks = Tail(@),
                     !.pc = IF Tail(run.blocks) # <<>> THEN "blocks"
                            ELSE AfterBlocks(run.plan)]

\* the row handleIssueBlock inserts, as a row of the table
BlockRow(project, row) ==
    [project |-> project,
     priority |-> row.priority,
     status |-> row.status,
     detected |-> "",
     assigned_agent_id |-> row.assigned_agent_id,
     queued_agent_id |-> row.queued_agent_id,
     queued_at |-> row.queued_at,
     started_at |-> NoTime,
     completed_at |-> NoTime]

\* handleStructuredBlocks, an @issue block: handleIssueBlock up to its
\* INSERT (a block without a title is passed over; ok: the INSERT succeeds)
RunIssueBlock(k, id, ok) ==
    /\ runs[k].pc = "blocks"
    /\ Head(runs[k].blocks).typeName = IssueBlock.typeName
    /\ LET r == handleIssueBlock(runs[k].agent, Head(runs[k].blocks).fields,
                                 clock, ok)
       IN IF r.made
          THEN /\ id = nextId + 1
               /\ issues' = [issues EXCEPT ![id] = BlockRow(runs[k].project, r.row)]
               /\ nextId' = id
               /\ lastCall' = NoCall
               /\ runs' = [runs EXCEPT ![k] = NextBlock(@, TRUE)]
          ELSE /\ runs' = [runs EXCEPT ![k] = NextBlock(@, FALSE)]
               /\ UNCHANGED <<issues, nextId, lastCall>>
    /\ UNCHANGED <<clock, req, disp, hubBusy, budget, claimed>>
    /\ UNCHANGED sideVars

\* handleStructuredBlocks, an @mention block: handleMentionBlock up to the
\* INSERT INTO messages of sendAgentMessage (a block without a message is
\* passed over; ok: the INSERT succeeds)
RunMentionBlock(k, ok) ==
    /\ runs[k].pc = "blocks"
    /\ Head(runs[k].blocks).typeName = MentionBlock.typeName
    /\ LET message == Field(Head(runs[k].blocks).fields,
                            <<"m", "e", "s", "s", "a", "g", "e">>)
       IN runs' = [runs EXCEPT ![k] = NextBlock(@, message # <<>> /\ ok)]
    /\ UNCHANGED <<storeVars, lastCall, req, disp, hubBusy, budget, claimed>>
    /\ UNCHANGED sideVars

\* handleStructuredBlocks, an @dialog block: handleDialogBlock up to its
\* INSERT (d: the uuid of the dialog; ok: the INSERT succeeds); the event
\* is sent whether the INSERT succeeded or not
RunDialogBlock(k, d, ok) ==
    /\ runs[k].pc = "blocks"
    /\ Head(runs[k].blocks).typeName = DialogBlock.typeName
    /\ LET fields == Head(runs[k].blocks).fields
       IN IF ok
          THEN /\ ~Exists(dialogs, d)
               /\ \A e \in DialogIds : e < d => Exists(dialogs, e)
               /\ dialogs' = InsertDialog(dialogs, d, runs[k].project,
                    splitCSV(Field(fields, <<"o", "p", "t", "i", "o", "n", "s">>)),
                    Field(fields, <<"d", "e", "f", "a", "u", "l", "t">>))
          ELSE UNCHANGED dialogs
    /\ runs' = [runs EXCEPT ![k] = NextBlock(@, TRUE)]
    /\ UNCHANGED <<storeVars, lastCall, req, disp, hubBusy, budget, claimed>>
    /\ UNCHANGED <<calls, dlgEvents, sysMessages, successes, lastReturn>>
    /\ UNCHANGED otherThanDialogs

\* the event of the block: p.broadcast <- data, a blocking send of
\* issue.created, message.received or dialog.requested
RunBlockEvent(k) ==
    /\ runs[k].pc = "block_ev"
    /\ HubReceives
    /\ hubBusy' = TRUE
    /\ runs' = [runs EXCEPT ![k] = NextBlock(@, FALSE)]
    /\ UNCHANGED <<storeVars, lastCall, req, disp, budget, claimed>>
    /\ UNCHANGED sideVars

\* applyActionPlan returns: on success CommitWorkspaceChanges is entered, on
\* an error the reply becomes the error text and the commit is skipped
RunApply(k, ok) ==
    /\ runs[k].pc = "applying"
    /\ runs' = [runs EXCEPT ![k].pc = IF ok THEN "committing" ELSE "message"]
    /\ UNCHANGED <<storeVars, lastCall, req, disp, hubBusy, budget, claimed>>
    /\ UNCHANGED sideVars

\* CommitWorkspaceChanges returns; a failure only adds a note
RunCommit(k) ==
    /\ runs[k].pc = "committing"
    /\ runs' = [runs EXCEPT ![k].pc = "message"]
    /\ UNCHANGED <<storeVars, lastCall, req, disp, hubBusy, budget, claimed>>
    /\ UNCHANGED sideVars

\* sendAgentMessage: the INSERT INTO messages; when it fails nothing is sent
RunMessage(k, ok) ==
    /\ runs[k].pc = "message"
    /\ runs' = [runs EXCEPT ![k] =
                  IF ok THEN [@ EXCEPT !.pc = "message_ev"]
                  ELSE AfterMessage(@)]
    /\ UNCHANGED <<storeVars, lastCall, req, disp, hubBusy, budget, claimed>>
    /\ UNCHANGED sideVars

\* sendAgentMessage: p.broadcast <- data, a blocking send
RunMessageEvent(k) ==
    /\ runs[k].pc = "message_ev"
    /\ HubReceives
    /\ hubBusy' = TRUE
    /\ runs' = [runs EXCEPT ![k] = AfterMessage(@)]
    /\ UNCHANGED <<storeVars, lastCall, req, disp, budget, claimed>>
    /\ UNCHANGED sideVars

\* markIssueCompleted: the conditional UPDATE; zero rows: return
RunComplete(k) ==
    /\ runs[k].pc = "complete"
    /\ LET id == runs[k].issue
           hit == CompleteMatches(issues, id)
       IN /\ issues' = CompleteStmt(issues, id, clock)
          /\ lastCall' = IF hit THEN NoCall ELSE lastCall
          /\ runs' = [runs EXCEPT ![k] =
                        IF hit THEN [@ EXCEPT !.pc = "complete_ev"]
                        ELSE AfterComplete(@)]
    /\ UNCHANGED <<nextId, clock, req, disp, hubBusy, budget, claimed>>
    /\ UNCHANGED sideVars

\* markIssueCompleted: issue, err := fetchIssueForBroadcast(p.db, issueID);
\* on an error it returns (ok: the query ran)
RunCompleteFetch(k, ok) ==
    /\ runs[k].pc = "complete_ev"
    /\ runs' = [runs EXCEPT ![k] =
                  IF ok /\ CanFetch(@.issue)
                  THEN [@ EXCEPT !.pc = "complete_send"]
                  ELSE AfterComplete(@)]
    /\ UNCHANGED <<storeVars, lastCall, req, disp, hubBusy, budget, claimed>>
    /\ UNCHANGED sideVars

\* markIssueCompleted: p.broadcast <- data, the blocking send of
\* issue.updated
RunCompleteEvent(k) ==
    /\ runs[k].pc = "complete_send"
    /\ HubReceives
    /\ hubBusy' = TRUE
    /\ runs' = [runs EXCEPT ![k] = AfterComplete(@)]
    /\ UNCHANGED <<storeVars, lastCall, req, disp, budget, claimed>>
    /\ UNCHANGED sideVars

\* proposeTask: INSERT ... VALUES (..., 'medium', 'proposed', ..., NULL,
\* NULL, NULL, ?): no assigned and no queued agent.  detected stands for
\* what DetectAgent yields on the title and description of the task (every
\* title in taskTitles holds a keyword).
proposeTask(tbl, id, project, detected, now) ==
    InsertIssue(tbl, id, project, "medium", "proposed", "", detected, now)

\* proposeTask of a run: time.Sleep, uuid.New (id) and the INSERT; when it
\* fails nothing is sent
RunProposeTask(k, id, detected, ok) ==
    /\ runs[k].pc = "propose"
    /\ id = nextId + 1
    /\ IF ok
       THEN /\ issues' = proposeTask(issues, id, runs[k].project, detected,
                                     clock)
            /\ nextId' = id
            /\ lastCall' = NoCall
            /\ runs' = [runs EXCEPT ![k].pc = "propose_ev"]
       ELSE /\ runs' = [runs EXCEPT ![k] = FreeRun]
            /\ UNCHANGED <<issues, nextId, lastCall>>
    /\ UNCHANGED <<clock, req, disp, hubBusy, budget, claimed>>
    /\ UNCHANGED sideVars

\* proposeTask: p.broadcast <- data, a blocking send of issue.created
RunProposeTaskEvent(k) ==
    /\ runs[k].pc = "propose_ev"
    /\ HubReceives
    /\ hubBusy' = TRUE
    /\ runs' = [runs EXCEPT ![k] = FreeRun]
    /\ UNCHANGED <<storeVars, lastCall, req, disp, budget, claimed>>
    /\ UNCHANGED sideVars

---------------------------------------------------------------------------
\* A statement of broadcastIssueChange or of pushAgentStatusUpdate in the
\* handler of request r
ReqFanOut(r) ==
    \/ \E ok \in BOOLEAN : ReqFetchIssue(r, ok)
    \/ ReqSendIssueUpdated(r)
    \/ \E ok \in BOOLEAN : ReqStatsQuery(r, ok)
    \/ ReqSendSnapshot(r)

\* A statement of broadcastIssueChange or of pushAgentStatusUpdate in the
\* tick of Dispatcher d
DispFanOut(d) ==
    \/ \E ok \in BOOLEAN : DispFetchIssue(d, ok)
    \/ DispSendIssueUpdated(d)
    \/ \E ok \in BOOLEAN : DispStatsQuery(d, ok)
    \/ DispSendSnapshot(d)

\* A statement of markIssueCompleted in run k
RunCompletion(k) ==
    \/ RunComplete(k)
    \/ \E ok \in BOOLEAN : RunCompleteFetch(k, ok)
    \/ RunCompleteEvent(k)

Next ==
    \/ HubLoop
    \/ \E r \in ConcReqs, id \in ConcCreateIds, project \in Projects,
          priority \in ConcPriorities, status \in ConcCreateStatuses,
          detected \in ConcAgents \cup {""} :
            CreateInsert(r, id, project, priority, status, "", detected)
    \/ \E r \in ConcReqs : CreateQueue(r)
    \/ \E r \in ConcReqs, id \in ConcCreateIds, status \in ConcUpdateStatuses :
            UpdateRead(r, id, status)
    \/ \E r \in ConcReqs : UpdateWrite(r)
    \/ \E r \in ConcReqs : UpdateAssign(r)
    \/ \E r \in ConcReqs : UpdateQueue(r)
    \/ \E r \in ConcReqs : ReqFanOut(r)
    \/ \E r \in ConcReqs, id \in ConcCreateIds : DeleteIssue(r, id)
    \/ \E d \in ConcDisps : DispSelect(d)
    \/ \E d \in ConcDisps : DispClaim(d)
    \/ \E d \in ConcDisps : DispFanOut(d)
    \/ \E k \in Runs, reply \in ConcReplies :
            RunGenerate(k, reply[1], reply[2], FALSE)
    \/ \E k \in Runs, ok \in BOOLEAN : RunMentionBlock(k, ok)
    \/ \E k \in Runs : RunBlockEvent(k)
    \/ \E k \in Runs, ok \in BOOLEAN : RunApply(k, ok)
    \/ \E k \in Runs : RunCommit(k)
    \/ \E k \in Runs, ok \in BOOLEAN : RunMessage(k, ok)
    \/ \E k \in Runs : RunMessageEvent(k)

Spec == Init /\ [][Next]_vars

(***************************************************************************)
(* SpecSeq: the requests of Spec with every status and with a requested    *)
(* agent or none, while time passes.  The Dispatcher and the runs go on    *)
(* between the statements of the requests.                                 *)
(***************************************************************************)
SeqAgents == {"backend_architect"}
SeqPriorities == {"medium"}
SeqUpdateStatuses == {"todo", "inProgress", "review", "done"}

\* (requested agent, DetectAgent result) of a create request; the detected
\* agent plays no part once an agent is requested
SeqAgentInputs ==
    {<<"", "">>} \cup {<<"", a>> : a \in SeqAgents}
                \cup {<<a, "">> : a \in SeqAgents}

SeqIds == 1..MaxIssues

InitSeq == Start(MaxRequests)

NextSeq ==
    \/ Tick
    \/ HubLoop
    \/ \E r \in TickReqs, id \in SeqIds, project \in Projects,
          priority \in SeqPriorities, status \in Statuses,
          ag \in SeqAgentInputs :
            CreateInsert(r, id, project, priority, status, ag[1], ag[2])
    \/ \E r \in TickReqs : CreateQueue(r)
    \/ \E r \in TickReqs, id \in SeqIds, status \in Statuses :
            UpdateRead(r, id, status)
    \/ \E r \in TickReqs : UpdateWrite(r)
    \/ \E r \in TickReqs : UpdateAssign(r)
    \/ \E r \in TickReqs : UpdateQueue(r)
    \/ \E r \in TickReqs : ReqFanOut(r)
    \/ \E r \in TickReqs, id \in SeqIds : DeleteIssue(r, id)
    \/ \E d \in ConcDisps : DispSelect(d)
    \/ \E d \in ConcDisps : DispClaim(d)
    \/ \E d \in ConcDisps : DispFanOut(d)
    \/ \E k \in Runs : RunGenerate(k, <<>>, FALSE, FALSE)
    \/ \E k \in Runs : RunMessage(k, TRUE)
    \/ \E k \in Runs : RunMessageEvent(k)

SpecSeq == InitSeq /\ [][NextSeq]_vars

(***************************************************************************)
(* SpecClaim: concurrent calls of claimNextQueuedIssue, by the ticks of    *)
(* MaxDisp Dispatchers, among the statements of the requests and the runs. *)
(***************************************************************************)
InitClaim == Start(MaxRequests)

NextClaim ==
    \/ HubLoop
    \/ \E r \in TickReqs, id \in SeqIds, project \in Projects,
          priority \in SeqPriorities, status \in ConcCreateStatuses,
          detected \in SeqAgents :
            CreateInsert(r, id, project, priority, status, "", detected)
    \/ \E r \in TickReqs : CreateQueue(r)
    \/ \E r \in TickReqs, id \in SeqIds, status \in SeqUpdateStatuses :
            UpdateRead(r, id, status)
    \/ \E r \in TickReqs : UpdateWrite(r)
    \/ \E r \in TickReqs : UpdateQueue(r)
    \/ \E r \in TickReqs : ReqFanOut(r)
    \/ \E r \in TickReqs, id \in SeqIds : DeleteIssue(r, id)
    \/ \E d \in Disps : DispSelect(d)
    \/ \E d \in Disps : DispClaim(d)
    \/ \E d \in Disps : DispFanOut(d)
    \/ \E k \in Runs : RunGenerate(k, <<>>, FALSE, FALSE)
    \/ \E k \in Runs : RunMessage(k, TRUE)
    \/ \E k \in Runs : RunMessageEvent(k)

SpecClaim == InitClaim /\ [][NextClaim]_vars

(***************************************************************************)
(* SpecApply: one call of applyActionPlan.  The plan's entries are drawn   *)
(* as the loops reach them: every iteration of a loop is one step.         *)
(***************************************************************************)
InitApply ==
    /\ issues = EmptyTable
    /\ nextId = 0
    /\ clock = 1
    /\ lastCall = NoCall
    /\ req = [r \in Reqs |-> IdleReq]
    /\ disp = [d \in Disps |-> IdleDisp]
    /\ runs = [k \in Runs |-> FreeRun]
    /\ hubBusy = FALSE
    /\ budget = 0
    /\ claimed = [i \in IssueIds |-> 0]
    /\ DialogInit
    /\ ApplyInit
    /\ HubInit
    /\ RunInit
    /\ QueryInit
    /\ TwiceInit
    /\ PureInit
    /\ NetInit

\* the path of a plan entry, joined to the workspace as it stands, leaves
\* the workspace
ResolvesOutside(path) ==
    /\ TrimSpace(path) # <<>>
    /\ ~Inside(Join(Clean(Workspace), Clean(TrimSpace(path))))

ApplyFail_Rollback ==
    /\ apPc' = "done"
    /\ apResult' = "error"
    /\ fs' = InitialFiles
    /\ written' = {}
    /\ UNCHANGED <<filesWritten, mutationsApplied>>

ApplyFail ==
    /\ apPc' = "done"
    /\ apResult' = "error"
    /\ UNCHANGED <<fs, filesWritten, mutationsApplied, written>>

\* one iteration of the loop over plan.Files
ApplyFile(path, content, overwrite) ==
    /\ apPc = "files"
    /\ apFiles < MaxPlanFiles
    /\ apFiles' = apFiles + 1
    /\ escapeSeen' = (escapeSeen \/ ResolvesOutside(path))
    /\ LET cleanPath == normalizePlanPath(Workspace, path)
           absPath == secureJoin(Workspace, cleanPath)
       IN IF cleanPath = <<>>
          THEN UNCHANGED <<fs, apPc, apResult, filesWritten,
                           mutationsApplied, written>>
          ELSE IF absPath = EscapeError THEN ApplyFail
          ELSE IF MkdirAllFails(fs, Dir(absPath)) THEN ApplyFail
          ELSE IF ~overwrite /\ (IsFile(fs, absPath) \/ IsDir(fs, absPath))
               THEN UNCHANGED <<fs, apPc, apResult, filesWritten,
                                mutationsApplied, written>>
          ELSE IF IsDir(fs, absPath) THEN ApplyFail
          ELSE /\ fs' = WriteFile(fs, absPath, content)
               /\ filesWritten' = filesWritten + 1
               /\ written' = written \cup {absPath}
               /\ UNCHANGED <<apPc, apResult, mutationsApplied>>
    /\ UNCHANGED apMuts
    /\ UNCHANGED <<issueVars, clock, dialogVars, hubVars, runVars, queryVars,
                   twiceVars, pureVars, netVars>>

\* the loop over plan.Files ends
ApplyFilesEnd ==
    /\ apPc = "files"
    /\ apPc' = "mutations"
    /\ UNCHANGED <<fs, apResult, apFiles, apMuts, filesWritten,
                   mutationsApplied, written, escapeSeen>>
    /\ UNCHANGED <<issueVars, clock, dialogVars, hubVars, runVars, queryVars,
                   twiceVars, pureVars, netVars>>

\* one iteration of the loop over plan.Mutations
ApplyMutation(path, find, replace) ==
    /\ apPc = "mutations"
    /\ apMuts < MaxPlanMutations
    /\ apMuts' = apMuts + 1
    /\ escapeSeen' = (escapeSeen \/ ResolvesOutside(path))
    /\ LET cleanPath == normalizePlanPath(Workspace, path)
           absPath == secureJoin(Workspace, cleanPath)
       IN IF path = <<>> \/ find = <<>> \/ cleanPath = <<>>
          THEN UNCHANGED <<fs, apPc, apResult, filesWritten,
                           mutationsApplied, written>>
          ELSE IF absPath = EscapeError THEN ApplyFail
          ELSE IF ~IsFile(fs, absPath) THEN ApplyFail
          ELSE IF ~Contains(ContentOf(fs, absPath), find)
               THEN UNCHANGED <<fs, apPc, apResult, filesWritten,
                                mutationsApplied, written>>
          ELSE /\ fs' = WriteFile(fs, absPath,
                            ReplaceFirst(ContentOf(fs, absPath), find, replace))
               /\ mutationsApplied' = mutationsApplied + 1
               /\ written' = written \cup {absPath}
               /\ UNCHANGED <<apPc, apResult, filesWritten>>
    /\ UNCHANGED apFiles
    /\ UNCHANGED <<issueVars, clock, dialogVars, hubVars, runVars, queryVars,
                   twiceVars, pureVars, netVars>>

\* the loop over plan.Mutations ends: the summary is returned
ApplyReturn ==
    /\ apPc = "mutations"
    /\ apPc' = "done"
    /\ apResult' = "ok"
    /\ UNCHANGED <<fs, apFiles, apMuts, filesWritten, mutationsApplied,
                   written, escapeSeen>>
    /\ UNCHANGED <<issueVars, clock, dialogVars, hubVars, runVars, queryVars,
                   twiceVars, pureVars, netVars>>

NextApply ==
    \/ \E path \in PlanPaths, content \in NewContents, overwrite \in BOOLEAN :
            ApplyFile(path, content, overwrite)
    \/ ApplyFilesEnd
    \/ \E path \in PlanPaths, find \in Finds, replace \in Replaces :
            ApplyMutation(path, find, replace)
    \/ ApplyReturn

SpecApply == InitApply /\ [][NextApply]_vars

(***************************************************************************)
(* SpecDialog: concurrent respondToDialog calls on the dialog a run asked  *)
(* for with an @dialog block.  Every store statement and every send of a   *)
(* call is one step.                                                       *)
(***************************************************************************)
\* The @dialog blocks of the replies: with two options or none, and with a
\* default or none
DialogOptionLines ==
    {<<>>,
     <<<<"o", "p", "t", "i", "o", "n", "s", ":", " ", "Y", ",", " ", "N">>>>}

DialogDefaultLines ==
    {<<>>,
     <<<<"d", "e", "f", "a", "u", "l", "t", ":", " ", "N">>>>}

DialogBlocks ==
    {[typeName |-> DialogBlock.typeName, fields |-> parseBlockFields(o \o d)] :
        o \in DialogOptionLines, d \in DialogDefaultLines}

\* the project a chat message names: one, or none
DialogProjects == {"", "default"}

InitDialog ==
    /\ issues = EmptyTable
    /\ nextId = 0
    /\ clock = 1
    /\ lastCall = NoCall
    /\ req = [r \in Reqs |-> IdleReq]
    /\ disp = [d \in Disps |-> IdleDisp]
    /\ runs = [k \in Runs |-> FreeRun]
    /\ hubBusy = FALSE
    /\ budget = MaxChats
    /\ claimed = [i \in IssueIds |-> 0]
    /\ DialogInit
    /\ ApplyInit
    /\ HubInit
    /\ RunInit
    /\ QueryInit
    /\ TwiceInit
    /\ PureInit
    /\ NetInit

IsFirstIdleCall(c) ==
    /\ calls[c].pc = "idle"
    /\ \A b \in Calls : b < c => calls[b].pc # "idle"

Return(dialogID, result) ==
    lastReturn' = [dialog |-> dialogID, result |-> result]

\* respondToDialog returns the response: the call has succeeded
ReturnResponse(c) ==
    /\ successes' = [successes EXCEPT ![calls[c].dialog] = @ + 1]
    /\ Return(calls[c].dialog, "ok")
    /\ calls' = [calls EXCEPT ![c] = IdleCall]

\* respondToDialog up to the UPDATE: the row is read (an error when there
\* is none), its status checked and the selected option settled
RespondSelect(c, dialogID, userID, selected) ==
    /\ IsFirstIdleCall(c)
    /\ IF ~Exists(dialogs, dialogID)
       THEN /\ Return(dialogID, "sql: no rows in result set")
            /\ UNCHANGED calls
       ELSE LET row == dialogs[dialogID]
                sel == ResolveSelection(row.options, row.default_option,
                                        selected)
            IN IF row.status # "open"
               THEN /\ Return(dialogID, "dialog already resolved")
                    /\ UNCHANGED calls
               ELSE IF sel.err # ""
               THEN /\ Return(dialogID, sel.err)
                    /\ UNCHANGED calls
               ELSE /\ calls' = [calls EXCEPT ![c] =
                                    [pc |-> "update",
                                     dialog |-> dialogID,
                                     project |-> row.project,
                                     user |-> userID,
                                     option |-> sel.option]]
                    /\ UNCHANGED lastReturn
    /\ UNCHANGED <<dialogs, dlgEvents, sysMessages, successes>>
    /\ UNCHANGED <<issueVars, clock>>
    /\ UNCHANGED otherThanDialogs

\* respondToDialog: time.Now() and the UPDATE.  The number of rows the
\* UPDATE changed is not looked at; an error of the statement (ok is FALSE)
\* is returned.
RespondUpdate(c, ok) ==
    /\ calls[c].pc = "update"
    /\ IF ok
       THEN /\ dialogs' = ResolveStmt(dialogs, calls[c].dialog,
                                      calls[c].option, calls[c].user, clock)
            /\ calls' = [calls EXCEPT ![c].pc = "event"]
            /\ UNCHANGED lastReturn
       ELSE /\ Return(calls[c].dialog, "error")
            /\ calls' = [calls EXCEPT ![c] = IdleCall]
            /\ UNCHANGED dialogs
    /\ UNCHANGED <<dlgEvents, sysMessages, successes>>
    /\ UNCHANGED <<issueVars, clock>>
    /\ UNCHANGED otherThanDialogs

\* respondToDialog: globalHub.broadcast <- data, the blocking send of
\* dialog.responded with the option of this call
RespondEvent(c) ==
    /\ calls[c].pc = "event"
    /\ HubReceives
    /\ hubBusy' = TRUE
    /\ dlgEvents' = [dlgEvents EXCEPT ![calls[c].dialog] =
                        [count |-> @.count + 1,
                         selectedOption |-> calls[c].option]]
    /\ calls' = [calls EXCEPT ![c].pc = "lookup"]
    /\ UNCHANGED <<dialogs, sysMessages, successes, lastReturn>>
    /\ UNCHANGED <<storeVars, lastCall, req, disp, runs, budget, claimed>>
    /\ UNCHANGED otherThanDialogs

\* respondToDialog: lookupUserName, the SELECT of the user's name; then
\* sendSystemMessage returns at once when the dialog has no project
RespondLookup(c) ==
    /\ calls[c].pc = "lookup"
    /\ IF calls[c].project = ""
       THEN /\ ReturnResponse(c)
       ELSE /\ calls' = [calls EXCEPT ![c].pc = "system"]
            /\ UNCHANGED <<successes, lastReturn>>
    /\ UNCHANGED <<dialogs, dlgEvents, sysMessages>>
    /\ UNCHANGED <<issueVars, clock>>
    /\ UNCHANGED otherThanDialogs

\* sendSystemMessage: the INSERT INTO messages; when it fails (ok is FALSE)
\* nothing is sent
RespondSystemMessage(c, ok) ==
    /\ calls[c].pc = "system"
    /\ IF ok
       THEN /\ sysMessages' = [sysMessages EXCEPT ![calls[c].dialog] = @ + 1]
            /\ calls' = [calls EXCEPT ![c].pc = "system_ev"]
            /\ UNCHANGED <<successes, lastReturn>>
       ELSE /\ ReturnResponse(c)
            /\ UNCHANGED sysMessages
    /\ UNCHANGED <<dialogs, dlgEvents>>
    /\ UNCHANGED <<issueVars, clock>>
    /\ UNCHANGED otherThanDialogs

\* sendSystemMessage: globalHub.broadcast <- data, the blocking send of
\* message.received; respondToDialog then returns the response
RespondSystemEvent(c) ==
    /\ calls[c].pc = "system_ev"
    /\ HubReceives
    /\ hubBusy' = TRUE
    /\ ReturnResponse(c)
    /\ UNCHANGED <<dialogs, dlgEvents, sysMessages>>
    /\ UNCHANGED <<storeVars, lastCall, req, disp, runs, budget, claimed>>
    /\ UNCHANGED otherThanDialogs

NextDialog ==
    \/ Tick
    \/ HubLoop
    \/ \E project \in DialogProjects, agentType \in SeqAgents :
            ChatRun(project, agentType)
    \/ \E k \in Runs, block \in DialogBlocks :
            RunGenerate(k, <<block>>, FALSE, FALSE)
    \/ \E k \in Runs, d \in DialogIds, ok \in BOOLEAN : RunDialogBlock(k, d, ok)
    \/ \E k \in Runs : RunBlockEvent(k)
    \/ \E k \in Runs, ok \in BOOLEAN : RunMessage(k, ok)
    \/ \E k \in Runs : RunMessageEvent(k)
    \/ \E c \in Calls, d \in DialogIds, u \in Users, selected \in SelectedInputs :
            RespondSelect(c, d, u, selected)
    \/ \E c \in Calls, ok \in BOOLEAN : RespondUpdate(c, ok)
    \/ \E c \in Calls : RespondEvent(c)
    \/ \E c \in Calls : RespondLookup(c)
    \/ \E c \in Calls, ok \in BOOLEAN : RespondSystemMessage(c, ok)
    \/ \E c \in Calls : RespondSystemEvent(c)

SpecDialog == InitDialog /\ [][NextDialog]_vars

(***************************************************************************)
(* SpecStamp: the requests on one issue with every status value a request  *)
(* may carry, the Dispatcher's claims and the runs' completions, statement *)
(* by statement, while time passes.                                        *)
(***************************************************************************)
StampAgentInputs == {<<"", "">>, <<"backend_architect", "">>}

InitStamp == Start(MaxRequests)

\* The status values a request may carry: the five of the workflow, none,
\* and one that is not a status.
StampStatusInputs == Statuses \cup {"", "archived"}

NextStamp ==
    \/ Tick
    \/ HubLoop
    \/ \E r \in StampReqs, id \in SeqIds, project \in Projects,
          priority \in SeqPriorities, status \in StampStatusInputs,
          ag \in StampAgentInputs :
            CreateInsert(r, id, project, priority, status, ag[1], ag[2])
    \/ \E r \in StampReqs : CreateQueue(r)
    \/ \E r \in StampReqs, id \in SeqIds, status \in StampStatusInputs :
            UpdateRead(r, id, status)
    \/ \E r \in StampReqs : UpdateWrite(r)
    \/ \E r \in StampReqs : UpdateAssign(r)
    \/ \E r \in StampReqs : UpdateQueue(r)
    \/ \E r \in StampReqs : ReqFanOut(r)
    \/ \E d \in ConcDisps : DispSelect(d)
    \/ \E d \in ConcDisps : DispClaim(d)
    \/ \E d \in ConcDisps : DispFanOut(d)
    \/ \E k \in Runs : RunGenerate(k, <<>>, FALSE, FALSE)
    \/ \E k \in Runs : RunMessage(k, TRUE)
    \/ \E k \in Runs : RunMessageEvent(k)
    \/ \E id \in SeqIds, agentType \in SeqAgents :
            IssueRun("default", agentType, id)
    \/ \E k \in Runs : RunCompletion(k)

SpecStamp == InitStamp /\ [][NextStamp]_vars

(***************************************************************************)
(* SpecRun: one run of generateAgentResponse, phase by phase, on every     *)
(* outcome of the AI call, the plan, the workspace and the store.          *)
(***************************************************************************)
InitRun == InitApply

otherThanRun ==
    <<issueVars, clock, dialogVars, applyVars, hubVars, queryVars, twiceVars, pureVars, netVars>>

\* ensureWorkspace and the AI call, up to extractStructuredBlocks.
RunStart(issueID, createTask, ai, blocks) ==
    /\ agPc = "idle"
    /\ agIn' = [issueID |-> issueID, createTask |-> createTask]
    /\ agBlocks' = IF ai = "output" THEN blocks ELSE <<>>
    /\ agPc' = aiPhase(ai, agBlocks')
    /\ agLocals' = [NoLocals EXCEPT
                        !.aiOutcome = ai,
                        !.responseText =
                            IF ai = "output" THEN "" ELSE "fallback"]
    /\ UNCHANGED agEffects
    /\ UNCHANGED otherThanRun

\* handleStructuredBlocks, one block of its loop.
RunBlock(ok) ==
    /\ agPc = "blocks"
    /\ agEffects' = agEffects \o BlockEffects(Head(agBlocks), ok)
    /\ agBlocks' = Tail(agBlocks)
    /\ agPc' = IF Tail(agBlocks) # <<>> THEN "blocks" ELSE PhaseAfter("blocks")
    /\ UNCHANGED <<agIn, agLocals>>
    /\ UNCHANGED otherThanRun

\* parseActionPlan and applyActionPlan.
RunPlan(workspaceOk, planOk, hasChanges, applyOk) ==
    /\ agPc = "plan"
    /\ IF workspaceOk /\ planOk /\ hasChanges
          THEN /\ agEffects' = Append(agEffects, Effect("apply", ""))
               /\ agPc' = applyPhase(applyOk)
               /\ agLocals' = [agLocals EXCEPT
                                   !.planForMessage = "changes",
                                   !.applyErr = ~applyOk,
                                   !.responseText =
                                       IF applyOk THEN "summary"
                                                  ELSE "applyError"]
          ELSE /\ UNCHANGED agEffects
               /\ agPc' = "send"
               /\ agLocals' = [agLocals EXCEPT
                                   !.planForMessage =
                                       IF workspaceOk /\ planOk THEN "empty"
                                                                ELSE "nil",
                                   !.responseText = "processedOutput"]
    /\ UNCHANGED <<agIn, agBlocks>>
    /\ UNCHANGED otherThanRun

\* CommitWorkspaceChanges.
RunCommitChanges(result) ==
    /\ agPc = "commit"
    /\ agEffects' = IF result = "committed"
                       THEN Append(agEffects, Effect("commit", ""))
                       ELSE agEffects
    /\ agPc' = PhaseAfter("commit")
    /\ UNCHANGED <<agIn, agBlocks, agLocals>>
    /\ UNCHANGED otherThanRun

\* sendAgentMessage of the run's chat message.
RunSend(ok) ==
    /\ agPc = "send"
    /\ agEffects' = agEffects \o sendAgentMessage("chat", ok)
    /\ agPc' = PhaseAfter("send")
    /\ UNCHANGED <<agIn, agBlocks, agLocals>>
    /\ UNCHANGED otherThanRun

\* markIssueCompleted, for a run that has an issue; rows is the number of
\* rows its UPDATE affects.
RunMarkCompleted(rows, fetchOk) ==
    /\ agPc = "complete"
    /\ agEffects' =
          IF agIn.issueID = "" \/ rows = 0 THEN agEffects
          ELSE IF fetchOk
               THEN agEffects \o <<Effect("issueDone", "done"),
                                   Effect("issue.updated", "done")>>
          ELSE Append(agEffects, Effect("issueDone", "done"))
    /\ agPc' = PhaseAfter("complete")
    /\ UNCHANGED <<agIn, agBlocks, agLocals>>
    /\ UNCHANGED otherThanRun

\* proposeTask, for a message that asks for a task.
RunPropose(ok) ==
    /\ agPc = "propose"
    /\ agEffects' = IF agIn.createTask
                       THEN agEffects \o proposeTaskEffects(ok)
                       ELSE agEffects
    /\ agPc' = PhaseAfter("propose")
    /\ UNCHANGED <<agIn, agBlocks, agLocals>>
    /\ UNCHANGED otherThanRun

NextRun ==
    \/ \E issueID \in {"", "i"}, createTask \in BOOLEAN, ai \in AiOutcomes,
          blocks \in BlockSeqs :
            RunStart(issueID, createTask, ai, blocks)
    \/ \E ok \in BOOLEAN : RunBlock(ok)
    \/ \E workspaceOk, planOk, hasChanges, applyOk \in BOOLEAN :
            RunPlan(workspaceOk, planOk, hasChanges, applyOk)
    \/ \E result \in {"committed", "nochange", "error"} :
            RunCommitChanges(result)
    \/ \E ok \in BOOLEAN : RunSend(ok)
    \/ \E rows \in {0, 1}, fetchOk \in BOOLEAN : RunMarkCompleted(rows, fetchOk)
    \/ \E ok \in BOOLEAN : RunPropose(ok)

SpecRun == InitRun /\ [][NextRun]_vars

(***************************************************************************)
(* SpecSelect: the SELECT of claimNextQueuedIssue on every table of        *)
(* MaxRows rows, queued at any time and with any priority, or not queued.  *)
(***************************************************************************)
SelectPriorities == {"urgent", "high", "medium", "low"}

SelectRows ==
    {QRow("default", p, "todo", Null, "backend_architect", t, NoTime) :
        p \in SelectPriorities, t \in 1..MaxClock}
    \cup {Absent,
          QRow("default", "urgent", "todo", Null, Null, NoTime, NoTime),
          QRow("default", "urgent", "inProgress", "backend_architect", Null,
               1, 1)}

otherThanQuery ==
    <<issueVars, clock, dialogVars, applyVars, hubVars, runVars, twiceVars, pureVars, netVars>>

InitSelect ==
    /\ issues = EmptyTable
    /\ nextId = 0
    /\ clock = 1
    /\ lastCall = NoCall
    /\ req = [r \in Reqs |-> IdleReq]
    /\ disp = [d \in Disps |-> IdleDisp]
    /\ runs = [k \in Runs |-> FreeRun]
    /\ hubBusy = FALSE
    /\ budget = 0
    /\ claimed = [i \in IssueIds |-> 0]
    /\ DialogInit
    /\ ApplyInit
    /\ HubInit
    /\ RunInit
    /\ qIssues \in [QueryIds -> SelectRows]
    /\ qResult = NoResult
    /\ TwiceInit
    /\ PureInit
    /\ NetInit

\* The read of claimNextQueuedIssue: the first row of the ordered SELECT,
\* or nil (id 0) when it has no row.
ClaimRead ==
    /\ qResult = NoResult
    /\ IF ClaimSelect(qIssues) = {}
          THEN qResult' = [NoResult EXCEPT !.kind = "claim"]
          ELSE \E id \in ClaimSelect(qIssues) :
                    qResult' = [NoResult EXCEPT !.kind = "claim", !.id = id]
    /\ UNCHANGED qIssues
    /\ UNCHANGED otherThanQuery

NextSelect == ClaimRead

SpecSelect == InitSelect /\ [][NextSelect]_vars

(***************************************************************************)
(* SpecStats: collectQueueStatsForProject on every table of MaxRows rows   *)
(* of two projects, queued to or held by a default agent, another agent or *)
(* none.                                                                   *)
(***************************************************************************)
StatProjects == {"default", "p2"}

StatRows ==
    {QRow(project, "medium", "todo", Null, a, 1, NoTime) :
        project \in StatProjects, a \in {"backend_architect", "qa_tester"}}
    \cup {QRow("default", "medium", "inProgress", a, Null, NoTime, t) :
            a \in {"backend_architect", "qa_tester"}, t \in {1, 2}}
    \cup {Absent,
          QRow("default", "medium", "todo", Null, Null, NoTime, NoTime),
          QRow("default", "medium", "inProgress", Null, Null, NoTime, 1),
          QRow("p2", "medium", "inProgress", "backend_architect", Null,
               NoTime, 1),
          QRow("default", "medium", "review", "backend_architect", Null,
               1, 1),
          QRow("default", "medium", "todo", Null, "", 1, NoTime),
          QRow("default", "medium", "inProgress", "", Null, NoTime, 1)}

InitStats ==
    /\ issues = EmptyTable
    /\ nextId = 0
    /\ clock = 1
    /\ lastCall = NoCall
    /\ req = [r \in Reqs |-> IdleReq]
    /\ disp = [d \in Disps |-> IdleDisp]
    /\ runs = [k \in Runs |-> FreeRun]
    /\ hubBusy = FALSE
    /\ budget = 0
    /\ claimed = [i \in IssueIds |-> 0]
    /\ DialogInit
    /\ ApplyInit
    /\ HubInit
    /\ RunInit
    /\ qIssues \in [QueryIds -> StatRows]
    /\ qResult = NoResult
    /\ TwiceInit
    /\ PureInit
    /\ NetInit

CollectStats(project, queueOk, inProgressOk, issueOk, unread) ==
    /\ qResult = NoResult
    /\ \E result \in collectQueueStatsForProject(qIssues, project, queueOk,
                                                  inProgressOk, issueOk,
                                                  unread) :
          qResult' = [NoResult EXCEPT
                        !.kind = IF result.err THEN "statsError" ELSE "stats",
                        !.project = project,
                        !.stats = result.list]
    /\ UNCHANGED qIssues
    /\ UNCHANGED otherThanQuery

NextStats ==
    \E project \in StatProjects, queueOk, inProgressOk, issueOk \in BOOLEAN,
       unread \in SUBSET QueryIds :
        CollectStats(project, queueOk, inProgressOk, issueOk, unread)

SpecStats == InitStats /\ [][NextStats]_vars

(***************************************************************************)
(* SpecTwice: one plan, drawn from a bounded set, is applied and committed *)
(* by two applications to the clean initial workspace, which is a git      *)
(* repository or not.  Each entry of the plan and each git command is a    *)
(* step; the applications follow one another or overlap, and a git         *)
(* command may fail.                                                       *)
(***************************************************************************)
TwicePaths ==
    {<<"a">>, <<"b">>,
     <<".", "g", "i", "t", "i", "g", "n", "o", "r", "e">>,
     <<".", "g", "i", "t", Slash, "c">>}

\* <<"b">> as the content of .gitignore excludes the file b
TwiceContents == {<<"n">>, <<"h", "h">>, <<"b">>}

TwiceFinds == {<<"h">>}

TwiceReplaces == {<<"i">>, <<"h", "h">>}

FileEntries ==
    [path : TwicePaths, content : TwiceContents, overwrite : BOOLEAN]

MutationEntries ==
    [path : TwicePaths, find : TwiceFinds, replace : TwiceReplaces]

Plans ==
    [files : UNION {[1..n -> FileEntries] : n \in 0..MaxPlanFiles},
     mutations : UNION {[1..n -> MutationEntries] : n \in 0..MaxPlanMutations}]

\* The clean workspaces an application starts on: the initial files, with
\* or without a committed .gitignore that excludes b.
TwiceWorkspaces ==
    {InitialFiles,
     InitialFiles \cup {[path |-> GitIgnore, content |-> <<"b">>]}}

InitTwice ==
    /\ issues = EmptyTable
    /\ nextId = 0
    /\ clock = 1
    /\ lastCall = NoCall
    /\ req = [r \in Reqs |-> IdleReq]
    /\ disp = [d \in Disps |-> IdleDisp]
    /\ runs = [k \in Runs |-> FreeRun]
    /\ hubBusy = FALSE
    /\ budget = 0
    /\ claimed = [i \in IssueIds |-> 0]
    /\ DialogInit
    /\ ApplyInit
    /\ HubInit
    /\ RunInit
    /\ QueryInit
    /\ twPlan \in Plans
    /\ twFs \in TwiceWorkspaces
    /\ twRepo \in BOOLEAN
    /\ twHead = (IF twRepo THEN CommittedTree(twFs) ELSE {})
    /\ twIndex = twHead
    /\ twDirs = {}
    /\ twResults = <<>>
    /\ twRuns = [k \in TwiceRuns |-> IdleTwice]
    /\ PureInit
    /\ NetInit

otherThanTwice ==
    <<issueVars, clock, dialogVars, applyVars, hubVars, runVars, queryVars,
      pureVars, netVars>>

\* an application is between its first write and the end of its commit
TwiceBusy(k) == twRuns[k].pc \notin {"idle", "done"}

\* where an application goes on after entry i - 1 of the loop named by pc
TwiceAt(pc, i) ==
    IF pc = "files" /\ i <= Len(twPlan.files) THEN [pc |-> "files", i |-> i]
    ELSE IF pc = "files" /\ Len(twPlan.mutations) > 0
         THEN [pc |-> "mutations", i |-> 1]
    ELSE IF pc = "mutations" /\ i <= Len(twPlan.mutations)
         THEN [pc |-> "mutations", i |-> i]
    ELSE [pc |-> "status", i |-> 0]

\* the application moves on to the next entry
TwiceGoes(k, pc, i) ==
    /\ twRuns' = [twRuns EXCEPT ![k].pc = TwiceAt(pc, i).pc,
                                ![k].i = TwiceAt(pc, i).i,
                                ![k].original = <<>>]
    /\ UNCHANGED twResults

\* the application moves on within the entry it is at
TwiceStays(k, pc) ==
    /\ twRuns' = [twRuns EXCEPT ![k].pc = pc]
    /\ UNCHANGED twResults

\* the application ends with the outcome result
TwiceEnds(k, result) ==
    /\ twRuns' = [twRuns EXCEPT ![k].pc = "done", ![k].i = 0,
                                ![k].original = <<>>]
    /\ twResults' = Append(twResults, result)

\* absPath of the entry of the plan an application is at
TwiceAbsPath(path) ==
    secureJoin(Workspace, normalizePlanPath(Workspace, path))

\* a directory of the file system of SpecTwice
TwiceIsDir(path) ==
    \/ IsDir(twFs, path)
    \/ path \in twDirs
    \/ twRepo /\ path = GitDir

\* generateAgentResponse reaches plan.HasChanges(): a plan without changes
\* is not applied.  Nothing keeps two goroutines of generateAgentResponse
\* from working on the same workspace; alone records that no other
\* application was under way while this one was.
TwiceStart(k) ==
    /\ twRuns[k].pc = "idle"
    /\ IF ~HasChanges(twPlan)
          THEN TwiceEnds(k, "noplan")
          ELSE /\ twRuns' =
                     [j \in TwiceRuns |->
                        IF j = k
                        THEN [pc |-> TwiceAt("files", 1).pc,
                              i |-> TwiceAt("files", 1).i,
                              alone |-> \A o \in TwiceRuns : ~TwiceBusy(o),
                              original |-> <<>>]
                        ELSE IF TwiceBusy(j)
                             THEN [twRuns[j] EXCEPT !.alone = FALSE]
                             ELSE twRuns[j]]
               /\ UNCHANGED twResults
    /\ UNCHANGED <<twPlan, twFs, twHead, twRepo, twIndex, twDirs>>
    /\ UNCHANGED otherThanTwice

\* applyActionPlan, an entry of plan.Files up to os.MkdirAll:
\* normalizePlanPath (an empty path is passed over), secureJoin (an error
\* is returned) and os.MkdirAll of the directory of the file, which fails
\* when a regular file is in its way.
TwiceFile(k) ==
    /\ twRuns[k].pc = "files"
    /\ IF normalizePlanPath(Workspace, twPlan.files[twRuns[k].i].path) = <<>>
          THEN /\ TwiceGoes(k, "files", twRuns[k].i + 1)
               /\ UNCHANGED twDirs
       ELSE IF TwiceAbsPath(twPlan.files[twRuns[k].i].path) = EscapeError
          THEN /\ TwiceEnds(k, "error")
               /\ UNCHANGED twDirs
       ELSE IF MkdirAllFails(
                  twFs, Dir(TwiceAbsPath(twPlan.files[twRuns[k].i].path)))
          THEN /\ TwiceEnds(k, "error")
               /\ UNCHANGED twDirs
       ELSE /\ twDirs' =
                  twDirs \cup
                  {d \in {Dir(TwiceAbsPath(twPlan.files[twRuns[k].i].path))}
                          \cup Ancestors(
                                 Dir(TwiceAbsPath(
                                        twPlan.files[twRuns[k].i].path))) :
                      ~TwiceIsDir(d)}
            /\ TwiceStays(k, IF twPlan.files[twRuns[k].i].overwrite
                                THEN "WriteFile" ELSE "Stat")
    /\ UNCHANGED <<twPlan, twFs, twHead, twRepo, twIndex>>
    /\ UNCHANGED otherThanTwice

\* if !overwrite { if _, err := os.Stat(absPath); err == nil { continue } }
TwiceStat(k) ==
    /\ twRuns[k].pc = "Stat"
    /\ IF \/ IsFile(twFs, TwiceAbsPath(twPlan.files[twRuns[k].i].path))
          \/ TwiceIsDir(TwiceAbsPath(twPlan.files[twRuns[k].i].path))
          THEN TwiceGoes(k, "files", twRuns[k].i + 1)
          ELSE TwiceStays(k, "WriteFile")
    /\ UNCHANGED <<twPlan, twFs, twHead, twRepo, twIndex, twDirs>>
    /\ UNCHANGED otherThanTwice

\* os.WriteFile(absPath, []byte(file.Content), 0o644) and filesWritten++;
\* the write fails on a directory and the error is returned.
TwiceWriteFile(k) ==
    /\ twRuns[k].pc = "WriteFile"
    /\ IF TwiceIsDir(TwiceAbsPath(twPlan.files[twRuns[k].i].path))
          THEN /\ TwiceEnds(k, "error")
               /\ UNCHANGED twFs
          ELSE /\ twFs' = WriteFile(
                              twFs,
                              TwiceAbsPath(twPlan.files[twRuns[k].i].path),
                              twPlan.files[twRuns[k].i].content)
               /\ TwiceGoes(k, "files", twRuns[k].i + 1)
    /\ UNCHANGED <<twPlan, twHead, twRepo, twIndex, twDirs>>
    /\ UNCHANGED otherThanTwice

\* applyActionPlan, an entry of plan.Mutations up to strings.Contains: an
\* entry without a path or a find text is passed over, as is an empty
\* clean path; secureJoin and os.ReadFile return their error; a content
\* without the find text is left alone.
TwiceMutation(k) ==
    /\ twRuns[k].pc = "mutations"
    /\ IF \/ twPlan.mutations[twRuns[k].i].path = <<>>
          \/ twPlan.mutations[twRuns[k].i].find = <<>>
          \/ normalizePlanPath(Workspace,
                               twPlan.mutations[twRuns[k].i].path) = <<>>
          THEN TwiceGoes(k, "mutations", twRuns[k].i + 1)
       ELSE IF \/ TwiceAbsPath(twPlan.mutations[twRuns[k].i].path)
                    = EscapeError
               \/ ~IsFile(twFs,
                          TwiceAbsPath(twPlan.mutations[twRuns[k].i].path))
          THEN TwiceEnds(k, "error")
       ELSE IF ~Contains(
                  ContentOf(twFs,
                            TwiceAbsPath(twPlan.mutations[twRuns[k].i].path)),
                  twPlan.mutations[twRuns[k].i].find)
          THEN TwiceGoes(k, "mutations", twRuns[k].i + 1)
       ELSE /\ twRuns' = [twRuns EXCEPT
                    ![k].pc = "Replace",
                    ![k].original =
                        ContentOf(
                            twFs,
                            TwiceAbsPath(twPlan.mutations[twRuns[k].i].path))]
            /\ UNCHANGED twResults
    /\ UNCHANGED <<twPlan, twFs, twHead, twRepo, twIndex, twDirs>>
    /\ UNCHANGED otherThanTwice

\* updated := strings.Replace(original, mutation.Find, mutation.Replace, 1)
\* and os.WriteFile(absPath, []byte(updated), 0o644): what was read is
\* written back with its first occurrence replaced, over whatever the
\* file holds by now; mutationsApplied++.
TwiceReplace(k) ==
    /\ twRuns[k].pc = "Replace"
    /\ twFs' = WriteFile(twFs,
                         TwiceAbsPath(twPlan.mutations[twRuns[k].i].path),
                         ReplaceFirst(twRuns[k].original,
                                      twPlan.mutations[twRuns[k].i].find,
                                      twPlan.mutations[twRuns[k].i].replace))
    /\ TwiceGoes(k, "mutations", twRuns[k].i + 1)
    /\ UNCHANGED <<twPlan, twHead, twRepo, twIndex, twDirs>>
    /\ UNCHANGED otherThanTwice

\* CommitWorkspaceChanges up to isTreeClean: (nil, nil) without a .git in
\* the workspace or on a clean tree, (nil, err) when git status fails, as
\* it does in a workspace whose .git is not a repository (a workspace
\* below another repository is not part of the model).
TwiceStatus(k, ok) ==
    /\ twRuns[k].pc = "status"
    /\ IF CommitSkipped(Workspace, twRepo, twFs, twDirs)
          THEN TwiceEnds(k, "nochange")
       ELSE IF ~ok \/ ~twRepo THEN TwiceEnds(k, "giterror")
       ELSE IF isTreeClean(twFs, twIndex, twHead) THEN TwiceEnds(k, "nochange")
       ELSE TwiceStays(k, "add")
    /\ UNCHANGED <<twPlan, twFs, twHead, twRepo, twIndex, twDirs>>
    /\ UNCHANGED otherThanTwice

\* runGit(workspacePath, "add", "-A"): the work tree is staged, or
\* (nil, err)
TwiceAdd(k, ok) ==
    /\ twRuns[k].pc = "add"
    /\ IF ok
          THEN /\ twIndex' = WorkTree(twFs, twIndex)
               /\ TwiceStays(k, "commit")
          ELSE /\ TwiceEnds(k, "giterror")
               /\ UNCHANGED twIndex
    /\ UNCHANGED <<twPlan, twFs, twHead, twRepo, twDirs>>
    /\ UNCHANGED otherThanTwice

\* runGit(workspacePath, "commit", "-m", commitMsg): what is staged becomes
\* HEAD; git commit fails when nothing staged differs from HEAD, and
\* (nil, err) is returned
TwiceCommit(k, ok) ==
    /\ twRuns[k].pc = "commit"
    /\ IF ok /\ twIndex # twHead
          THEN /\ twHead' = twIndex
               /\ TwiceStays(k, "push")
          ELSE /\ TwiceEnds(k, "giterror")
               /\ UNCHANGED twHead
    /\ UNCHANGED <<twPlan, twFs, twRepo, twIndex, twDirs>>
    /\ UNCHANGED otherThanTwice

\* what git config --get remote.origin.url and git push come to
Remotes == {"none", "pushed", "pushfailed"}

\* the result is built and, with a remote, pushed: (result, nil), or
\* (result, err) when the push fails
TwicePush(k, remote) ==
    /\ twRuns[k].pc = "push"
    /\ TwiceEnds(k, IF remote = "none" THEN "committed" ELSE remote)
    /\ UNCHANGED <<twPlan, twFs, twHead, twRepo, twIndex, twDirs>>
    /\ UNCHANGED otherThanTwice

NextTwice ==
    \/ \E k \in TwiceRuns : TwiceStart(k)
    \/ \E k \in TwiceRuns : TwiceFile(k)
    \/ \E k \in TwiceRuns : TwiceStat(k)
    \/ \E k \in TwiceRuns : TwiceWriteFile(k)
    \/ \E k \in TwiceRuns : TwiceMutation(k)
    \/ \E k \in TwiceRuns : TwiceReplace(k)
    \/ \E k \in TwiceRuns : \E ok \in BOOLEAN : TwiceStatus(k, ok)
    \/ \E k \in TwiceRuns : \E ok \in BOOLEAN : TwiceAdd(k, ok)
    \/ \E k \in TwiceRuns : \E ok \in BOOLEAN : TwiceCommit(k, ok)
    \/ \E k \in TwiceRuns : \E remote \in Remotes : TwicePush(k, remote)

SpecTwice == InitTwice /\ [][NextTwice]_vars

(***************************************************************************)
(* SpecDetect: DetectAgent and the chat path on every text of up to        *)
(* MaxPieces pieces: mention tokens, keywords in either case, a letter and *)
(* a space.                                                                *)
(***************************************************************************)
MaxPieces == 3

Pieces ==
    {<<"@", "p", "m">>,
     <<"@", "b", "a", "c", "k", "e", "n", "d">>,
     <<"@", "Q", "A">>,
     <<"b", "a", "c", "k", "e", "n", "d">>,
     <<"f", "r", "o", "n", "t", "e", "n", "d">>,
     <<"A", "P", "I">>,
     <<"b", "u", "i", "l", "d">>,
     <<"u", "i">>,
     <<"t", "e", "s", "t">>,
     <<"x">>,
     <<" ">>}

RECURSIVE Flatten(_)
Flatten(seqs) == IF seqs = <<>> THEN <<>> ELSE Head(seqs) \o Flatten(Tail(seqs))

Texts == {Flatten(ps) : ps \in UNION {[1..n -> Pieces] : n \in 0..MaxPieces}}

\* Every variable but those of the pure functions, as after construction.
InitButPure ==
    /\ issues = EmptyTable
    /\ nextId = 0
    /\ clock = 1
    /\ lastCall = NoCall
    /\ req = [r \in Reqs |-> IdleReq]
    /\ disp = [d \in Disps |-> IdleDisp]
    /\ runs = [k \in Runs |-> FreeRun]
    /\ hubBusy = FALSE
    /\ budget = 0
    /\ claimed = [i \in IssueIds |-> 0]
    /\ DialogInit
    /\ ApplyInit
    /\ HubInit
    /\ RunInit
    /\ QueryInit
    /\ TwiceInit
    /\ NetInit

otherThanPure ==
    <<issueVars, clock, dialogVars, applyVars, hubVars, runVars, queryVars,
      twiceVars, netVars>>

InitDetect ==
    /\ InitButPure
    /\ pfIn \in Texts
    /\ pfOut = NoOutput

\* DetectAgent on the text and on the lowercased text
Detect ==
    /\ pfOut = NoOutput
    /\ pfOut' = [kind |-> "detect",
                 agent |-> DetectAgent(pfIn),
                 lowerAgent |-> DetectAgent(LowerStr(pfIn))]
    /\ UNCHANGED pfIn
    /\ UNCHANGED otherThanPure

\* Two runs of the chat path (ProcessMessage) on the text
Route ==
    /\ pfOut = NoOutput
    /\ \E first, second \in analyzeAndRespond(pfIn) :
          pfOut' = [kind |-> "route", first |-> first, second |-> second]
    /\ UNCHANGED pfIn
    /\ UNCHANGED otherThanPure

NextDetect == Detect \/ Route

SpecDetect == InitDetect /\ [][NextDetect]_vars

(***************************************************************************)
(* SpecExtract: extractStructuredBlocks on every text of up to MaxLines    *)
(* lines: block headers of a known type and of none, terminators, a field, *)
(* a plain line and an empty one, some with spaces around them.            *)
(***************************************************************************)
MaxLines == 4

LinePieces ==
    {<<"@", "i">>,
     <<"@", "i", "s", "s", "u", "e">>,
     <<" ", "@", "I", " ">>,
     <<"-", "-", "-">>,
     <<" ", "-", "-", "-">>,
     <<"x">>,
     <<"k", ":", "v">>,
     <<>>}

OutputTexts ==
    {JoinLines(ls) : ls \in UNION {[1..n -> LinePieces] : n \in 1..MaxLines}}

InitExtract ==
    /\ InitButPure
    /\ pfIn \in OutputTexts
    /\ pfOut = NoOutput

Extract ==
    /\ pfOut = NoOutput
    /\ LET r == extractStructuredBlocks(pfIn)
       IN pfOut' = [kind |-> "extract", clean |-> r.clean, blocks |-> r.blocks]
    /\ UNCHANGED pfIn
    /\ UNCHANGED otherThanPure

NextExtract == Extract

SpecExtract == InitExtract /\ [][NextExtract]_vars

(***************************************************************************)
(* SpecSubject: sanitizeCommitMessage on messages whose first line has up  *)
(* to MaxRunes runes, with and without white space and empty lines before  *)
(* it and a second line after it.                                          *)
(***************************************************************************)
MaxRunes == 75

\* the rune at place i of a line: the lines differ at every place from
\* their neighbours
RuneAt(i) == IF i % 3 = 1 THEN "a" ELSE IF i % 3 = 2 THEN "b" ELSE "c"

LineOf(n) == [i \in 1..n |-> RuneAt(i)]

MessageHeads == {<<>>, <<" ">>, <<"\n", " ">>}

MessageTails == {<<>>, <<" ">>, <<" ", "\n", "x">>}

CommitMessages ==
    {h \o LineOf(n) \o t : h \in MessageHeads, n \in 0..MaxRunes,
                           t \in MessageTails}

InitSubject ==
    /\ InitButPure
    /\ pfIn \in CommitMessages
    /\ pfOut = NoOutput

Sanitize ==
    /\ pfOut = NoOutput
    /\ pfOut' = [kind |-> "subject", subject |-> sanitizeCommitMessage(pfIn)]
    /\ UNCHANGED pfIn
    /\ UNCHANGED otherThanPure

NextSubject == Sanitize

SpecSubject == InitSubject /\ [][NextSubject]_vars

(***************************************************************************)
(* SpecTick: the ticks of the Dispatcher among the statements of the       *)
(* requests and of the runs, on a table of up to MaxIssues + 1 issues:     *)
(* issues are created by createIssueHandler, moved by                      *)
(* updateIssueStatusHandler and claimed by claimNextQueuedIssue, while     *)
(* time passes.                                                            *)
(***************************************************************************)
InitTick == Start(ConcRequests)

\* (requested agent, DetectAgent result) of a create request: no agent,
\* a requested one, and a requested one on a text that names another
TickAgentInputs ==
    StampAgentInputs \cup {<<"qa_tester", "backend_architect">>}

\* "review" takes the same path through every statement as "proposed"
TickUpdateStatuses == {"proposed", "todo", "inProgress", "done"}

NextTick ==
    \/ Tick
    \/ HubLoop
    \/ \E r \in TickReqs, id \in ConcIds, project \in Projects,
          priority \in SeqPriorities, ag \in StampAgentInputs :
            CreateInsert(r, id, project, priority, "todo", ag[1], ag[2])
    \/ \E r \in TickReqs : CreateQueue(r)
    \/ \E r \in TickReqs, id \in ConcIds, status \in TickUpdateStatuses :
            UpdateRead(r, id, status)
    \/ \E r \in TickReqs : UpdateWrite(r)
    \/ \E r \in TickReqs : UpdateAssign(r)
    \/ \E r \in TickReqs : UpdateQueue(r)
    \/ \E r \in TickReqs : ReqFanOut(r)
    \/ \E d \in ConcDisps : DispSelect(d)
    \/ \E d \in ConcDisps : DispClaim(d)
    \/ \E d \in ConcDisps : DispFanOut(d)
    \/ \E k \in Runs : RunGenerate(k, <<>>, FALSE, FALSE)
    \/ \E k \in Runs : RunMessage(k, TRUE)
    \/ \E k \in Runs : RunMessageEvent(k)

SpecTick == InitTick /\ [][NextTick]_vars

(***************************************************************************)
(* SpecPropose: the tasks that the runs propose.  The run of a claimed     *)
(* issue whose message asks for a task proposes one; requests approve the  *)
(* proposals or move the issues elsewhere, and the Dispatcher ticks among  *)
(* their statements.                                                       *)
(***************************************************************************)
ProposeUpdateStatuses == {"todo", "done"}

InitPropose == Start(MaxRequests)

NextPropose ==
    \/ HubLoop
    \/ \E r \in TickReqs, id \in ConcIds, project \in Projects,
          priority \in SeqPriorities, agentID \in SeqAgents :
            CreateInsert(r, id, project, priority, "todo", agentID, "")
    \/ \E r \in TickReqs : CreateQueue(r)
    \/ \E r \in TickReqs, id \in ConcIds, status \in ProposeUpdateStatuses :
            UpdateRead(r, id, status)
    \/ \E r \in TickReqs : UpdateWrite(r)
    \/ \E r \in TickReqs : UpdateAssign(r)
    \/ \E r \in TickReqs : UpdateQueue(r)
    \/ \E r \in TickReqs : ReqFanOut(r)
    \/ \E d \in ConcDisps : DispSelect(d)
    \/ \E d \in ConcDisps : DispClaim(d)
    \/ \E d \in ConcDisps : DispFanOut(d)
    \/ \E k \in Runs, createTask \in BOOLEAN :
            RunGenerate(k, <<>>, FALSE, createTask)
    \/ \E k \in Runs : RunMessage(k, TRUE)
    \/ \E k \in Runs : RunMessageEvent(k)
    \/ \E k \in Runs, id \in ConcIds, detected \in SeqAgents, ok \in BOOLEAN :
            RunProposeTask(k, id, detected, ok)
    \/ \E k \in Runs : RunProposeTaskEvent(k)

SpecPropose == InitPropose /\ [][NextPropose]_vars

(***************************************************************************)
(* SpecQueued: the operations that write queued_agent_id or                *)
(* assigned_agent_id, statement by statement: create_issue, the @issue     *)
(* block of a reply, update_issue_status and the Dispatcher's claim.       *)
(***************************************************************************)
\* the @issue block of a reply: a title, and an assignee or not
QueuedBlocks ==
    {IssueBlock,
     [typeName |-> IssueBlock.typeName,
      fields |-> parseBlockFields(
                    <<<<"t", "i", "t", "l", "e", ":", " ", "x">>>>)]}

NextQueued ==
    \/ HubLoop
    \/ \E r \in TickReqs, id \in ConcIds, project \in Projects,
          priority \in SeqPriorities, status \in {"todo", "proposed"},
          ag \in TickAgentInputs :
            CreateInsert(r, id, project, priority, status, ag[1], ag[2])
    \/ \E r \in TickReqs : CreateQueue(r)
    \/ \E r \in TickReqs, id \in ConcIds, status \in TickUpdateStatuses :
            UpdateRead(r, id, status)
    \/ \E r \in TickReqs : UpdateWrite(r)
    \/ \E r \in TickReqs : UpdateAssign(r)
    \/ \E r \in TickReqs : UpdateQueue(r)
    \/ \E r \in TickReqs : ReqFanOut(r)
    \/ \E d \in ConcDisps : DispSelect(d)
    \/ \E d \in ConcDisps : DispClaim(d)
    \/ \E d \in ConcDisps : DispFanOut(d)
    \/ \E k \in Runs, block \in QueuedBlocks :
            RunGenerate(k, <<block>>, FALSE, FALSE)
    \/ \E k \in Runs, id \in ConcIds, ok \in BOOLEAN : RunIssueBlock(k, id, ok)
    \/ \E k \in Runs : RunBlockEvent(k)
    \/ \E k \in Runs : RunMessage(k, TRUE)
    \/ \E k \in Runs : RunMessageEvent(k)

SpecQueued == InitTick /\ [][NextQueued]_vars

(***************************************************************************)
(* SpecIssueBlock: the @issue blocks of replies of up to MaxIssueBlocks    *)
(* blocks, each with or without a title, a priority and an assignee in     *)
(* several spellings, handled for either of two agents.                    *)
(***************************************************************************)
MaxIssueBlocks == 1

\* The lines a field of a block is written as, and the value it stands for
TitleOptions ==
    {[lines |-> <<>>,
      expect |-> <<>>],
     [lines |-> <<<<"t", "i", "t", "l", "e", ":">>>>,
      expect |-> <<>>],
     [lines |-> <<<<"t", "i", "t", "l", "e", ":", " ", " ", "x", " ">>>>,
      expect |-> <<"x">>]}

PriorityOptions ==
    {[lines |-> <<>>,
      expect |-> "medium"],
     [lines |-> <<<<"p", "r", "i", "o", "r", "i", "t", "y", ":", " ", "H", "i", "g", "h">>>>,
      expect |-> "high"],
     [lines |-> <<<<"p", "r", "i", "o", "r", "i", "t", "y", ":", " ", "u", "r", "g", "e", "n", "t">>>>,
      expect |-> "urgent"],
     [lines |-> <<<<"p", "r", "i", "o", "r", "i", "t", "y", ":", " ", "a", "s", "a", "p">>>>,
      expect |-> "medium"]}

AssigneeOptions ==
    {[lines |-> <<>>,
      expect |-> ""],
     [lines |-> <<<<"a", "s", "s", "i", "g", "n", "e", "e", ":", " ", "Q", "A">>>>,
      expect |-> "qa_tester"],
     [lines |-> <<<<"a", "s", "s", "i", "g", "n", "e", "e", ":", " ", "P", "r", "o", "d", "u", "c", "t", " ", "M", "a", "n", "a", "g", "e", "r">>>>,
      expect |-> "product_manager"],
     [lines |-> <<<<"a", "s", "s", "i", "g", "n", "e", "e", ":", " ", "b", "a", "c", "k", "-", "e", "n", "d">>>>,
      expect |-> ""]}

BlockOptions ==
    [title : TitleOptions, priority : PriorityOptions,
     assignee : AssigneeOptions]

\* The lines of a block: header, fields, terminator
BlockLines(b) ==
    <<<<"@", "i", "s", "s", "u", "e">>>> \o b.title.lines \o b.priority.lines
        \o b.assignee.lines \o <<Dashes>>

RECURSIVE ReplyLines(_)
ReplyLines(bs) ==
    IF bs = <<>> THEN <<>> ELSE BlockLines(Head(bs)) \o ReplyLines(Tail(bs))

IssueAgents == {"product_manager", "backend_architect"}

Replies ==
    {[blocks |-> bs, agentType |-> a,
      text |-> JoinLines(<<<<"O", "k">>>> \o ReplyLines(bs))] :
        bs \in UNION {[1..n -> BlockOptions] : n \in 1..MaxIssueBlocks},
        a \in IssueAgents}

InitIssueBlock ==
    /\ InitButPure
    /\ pfIn \in Replies
    /\ pfOut = NoOutput

\* extractStructuredBlocks on the reply, then handleStructuredBlocks
HandleBlocks(oks) ==
    /\ pfOut = NoOutput
    /\ LET extracted == extractStructuredBlocks(pfIn.text)
           r == issueBlocks(pfIn.agentType, extracted.blocks, 1, clock, oks)
       IN pfOut' = [kind |-> "blocks", oks |-> oks, clean |-> extracted.clean,
                    rows |-> r.rows, events |-> r.events]
    /\ UNCHANGED pfIn
    /\ UNCHANGED otherThanPure

NextIssueBlock ==
    \E oks \in [1..MaxIssueBlocks -> BOOLEAN] : HandleBlocks(oks)

SpecIssueBlock == InitIssueBlock /\ [][NextIssueBlock]_vars

(***************************************************************************)
(* SpecAbort: one call of applyActionPlan on entries whose paths stay in   *)
(* the workspace, climb out of it, or name the directory next to it.       *)
(***************************************************************************)
AbortPaths ==
    {<<>>,
     <<"a">>,
     <<"b">>,
     <<"a", Slash, "b">>,
     DotDot \o <<Slash, "a">>,
     DotDot \o <<Slash, "p", "x", Slash, "a">>,
     <<Slash, "w">>}

AbortContents == {<<"n">>, <<"h", "h">>}

AbortFinds == {<<>>, <<"h">>, <<"n">>}

AbortReplaces == {<<"i">>, <<"h", "h">>}

NextAbort ==
    \/ \E path \in AbortPaths, content \in AbortContents,
          overwrite \in BOOLEAN :
            ApplyFile(path, content, overwrite)
    \/ ApplyFilesEnd
    \/ \E path \in AbortPaths, find \in AbortFinds,
          replace \in AbortReplaces :
            ApplyMutation(path, find, replace)
    \/ ApplyReturn

SpecAbort == InitApply /\ [][NextAbort]_vars

(***************************************************************************)
(* SpecChat: chat messages arrive on a connection; handleChatMessage       *)
(* stores each, hands its event to the hub and starts the goroutine that   *)
(* detects the agent and runs it.                                          *)
(***************************************************************************)
ChatTexts ==
    {<<"@", "q", "a">>,
     <<"x">>,
     <<"@", "p", "m", " ", "a", "d", "d", " ", "t", "a", "s", "k">>}

\* what the AI's output carries: no structured block, or one
ChatBlockSeqs == {<<>>} \cup {<<b>> : b \in BlockKinds}

otherThanChat ==
    <<issueVars, clock, dialogVars, applyVars, hubVars, runVars, queryVars,
      twiceVars, pureVars, hubLoopVars, loopVars>>

InitChat == InitApply

\* handleChatMessage up to its INSERT: a failed INSERT ends the handler
ChatInsert(ch, text, ok) ==
    /\ chatPc[ch].pc = "idle"
    /\ chatPc' = [chatPc EXCEPT
            ![ch] = [pc |-> IF ok THEN ChatAfter("insert") ELSE "done",
                     text |-> text]]
    /\ msgLog' = IF ok THEN Append(msgLog, [chat |-> ch, from |-> "user"])
                       ELSE msgLog
    /\ UNCHANGED <<replyPc, replyEvents, hubLog>>
    /\ UNCHANGED otherThanChat

\* c.hub.broadcast <- responseJSON: the hub receives the user's event
ChatSend(ch) ==
    /\ chatPc[ch].pc = "send"
    /\ hubLog' = Append(hubLog, [chat |-> ch, from |-> "user",
                                 type |-> "message.received"])
    /\ chatPc' = [chatPc EXCEPT ![ch].pc = ChatAfter("send")]
    /\ UNCHANGED <<replyPc, replyEvents, msgLog>>
    /\ UNCHANGED otherThanChat

\* go agents.ProcessMessage(...)
ChatSpawn(ch) ==
    /\ chatPc[ch].pc = "spawn"
    /\ replyPc' = [replyPc EXCEPT ![ch] = "detect"]
    /\ chatPc' = [chatPc EXCEPT ![ch].pc = ChatAfter("spawn")]
    /\ UNCHANGED <<replyEvents, hubLog, msgLog>>
    /\ UNCHANGED otherThanChat

\* analyzeAndRespond: no run when DetectAgent names no agent
ReplyDetect(ch) ==
    /\ replyPc[ch] = "detect"
    /\ replyPc' = [replyPc EXCEPT
            ![ch] = IF DetectAgent(chatPc[ch].text) = "" THEN "done"
                                                         ELSE "run"]
    /\ UNCHANGED <<chatPc, replyEvents, hubLog, msgLog>>
    /\ UNCHANGED otherThanChat

\* generateAgentResponse up to its first row or event
ReplyRun(ch, ai, blocks, oks, sendOk, proposeOk) ==
    /\ replyPc[ch] = "run"
    /\ LET effects == ChatRunEffects(chatPc[ch].text, ai, blocks, oks,
                                     sendOk, proposeOk)
       IN  /\ replyEvents' = [replyEvents EXCEPT ![ch] = effects]
           /\ replyPc' = [replyPc EXCEPT
                    ![ch] = IF effects = <<>> THEN "done" ELSE "effects"]
    /\ UNCHANGED <<chatPc, hubLog, msgLog>>
    /\ UNCHANGED otherThanChat

\* the next INSERT of the run, or the hub receives its next event
ReplyStep(ch) ==
    /\ replyPc[ch] = "effects"
    /\ LET effect == Head(replyEvents[ch])
           rest == Tail(replyEvents[ch])
       IN  /\ replyEvents' = [replyEvents EXCEPT ![ch] = rest]
           /\ replyPc' = [replyPc EXCEPT
                    ![ch] = IF rest = <<>> THEN "done" ELSE "effects"]
           /\ msgLog' = IF effect.name = "messageRow"
                           THEN Append(msgLog, [chat |-> ch, from |-> "agent"])
                           ELSE msgLog
           /\ hubLog' = IF IsRow(effect) THEN hubLog
                        ELSE Append(hubLog, [chat |-> ch, from |-> "agent",
                                             type |-> effect.name])
    /\ UNCHANGED chatPc
    /\ UNCHANGED otherThanChat

NextChat ==
    \/ \E ch \in Chats, text \in ChatTexts, ok \in BOOLEAN :
            ChatInsert(ch, text, ok)
    \/ \E ch \in Chats : ChatSend(ch)
    \/ \E ch \in Chats : ChatSpawn(ch)
    \/ \E ch \in Chats : ReplyDetect(ch)
    \/ \E ch \in Chats, ai \in AiOutcomes, blocks \in ChatBlockSeqs,
          ok, sendOk, proposeOk \in BOOLEAN :
            ReplyRun(ch, ai, blocks, <<ok>>, sendOk, proposeOk)
    \/ \E ch \in Chats : ReplyStep(ch)

SpecChat == InitChat /\ [][NextChat]_vars

(***************************************************************************)
(* SpecShutdown: the Dispatcher loop and the queue-snapshot worker loop,   *)
(* statement by statement, on a table drawn from a bounded set, while      *)
(* their tickers fire and the root context is cancelled, at their selects  *)
(* or inside a tick.  ProcessAgentTask starts the runs of the claimed      *)
(* issues; the loops wait for none of them, and they are not followed      *)
(* here.                                                                   *)
(***************************************************************************)
LoopRows ==
    {Absent,
     QRow("default", "urgent", "todo", "backend_architect",
          "backend_architect", 1, NoTime),
     QRow("default", "low", "todo", "backend_architect",
          "backend_architect", 1, NoTime)}

\* the rows of the tables the loops start on
LoopIds == 1..(MaxIssues + 1)

InitLoops ==
    /\ issues \in {tbl \in [IssueIds -> LoopRows] :
                      \A i \in IssueIds : i \notin LoopIds => tbl[i] = Absent}
    /\ nextId = MaxIssues + 1
    /\ clock = 1
    /\ lastCall = NoCall
    /\ req = [r \in Reqs |-> IdleReq]
    /\ disp = [d \in Disps |-> IdleDisp]
    /\ runs = [k \in Runs |-> FreeRun]
    /\ hubBusy = FALSE
    /\ budget = 0
    /\ claimed = [i \in IssueIds |-> 0]
    /\ DialogInit
    /\ ApplyInit
    /\ HubInit
    /\ RunInit
    /\ QueryInit
    /\ TwiceInit
    /\ PureInit
    /\ NetInit

otherThanLoops ==
    <<dialogVars, applyVars, hubVars, runVars, queryVars, twiceVars,
      pureVars, chatVars, hubLoopVars>>

\* case <-ctx.Done() of the loops' select is ready once the root context
\* is cancelled.  The mutant is a loop without that case.
DoneReady_NoCase(done) == FALSE

DoneReady(done) == done

\* the Dispatcher of the process
LoopDisp == CHOOSE d \in ConcDisps : TRUE

\* the loop waits in its select
AtSelect(l) ==
    /\ loopPc[l].pc = "select"
    /\ l = "dispatcher" => disp[LoopDisp].pc = "idle"

\* signal.NotifyContext: the interrupt cancels the root context
Cancel ==
    /\ ~ctxDone
    /\ ctxDone' = TRUE
    /\ UNCHANGED <<loopPc, tickReady, issueVars, clock>>
    /\ UNCHANGED otherThanLoops

\* the loop's ticker puts a tick in its channel, which holds one
TickerFires(l) ==
    /\ loopPc[l].pc # "exited"
    /\ ~tickReady[l]
    /\ tickReady' = [tickReady EXCEPT ![l] = TRUE]
    /\ UNCHANGED <<ctxDone, loopPc, issueVars, clock>>
    /\ UNCHANGED otherThanLoops

\* case <-ctx.Done(): return
LoopExit(l) ==
    /\ AtSelect(l)
    /\ DoneReady(ctxDone)
    /\ loopPc' = [loopPc EXCEPT ![l].pc = "exited"]
    /\ UNCHANGED <<ctxDone, tickReady, issueVars, clock>>
    /\ UNCHANGED otherThanLoops

\* case <-ticker.C of startTaskProcessor: the tick is received
DispatcherTick ==
    /\ AtSelect("dispatcher")
    /\ tickReady["dispatcher"]
    /\ tickReady' = [tickReady EXCEPT !["dispatcher"] = FALSE]
    /\ disp' = [disp EXCEPT ![LoopDisp].pc = "tick"]
    /\ UNCHANGED <<ctxDone, loopPc, storeVars, lastCall, req, runs, hubBusy,
                   budget, claimed>>
    /\ UNCHANGED otherThanLoops

\* claimNextQueuedIssue: the SELECT; with no row nil is returned and the
\* loop continues
DispatcherSelect ==
    /\ disp[LoopDisp].pc = "tick"
    /\ IF ClaimSelect(issues) = {}
       THEN disp' = [disp EXCEPT ![LoopDisp] = IdleDisp]
       ELSE \E id \in ClaimSelect(issues) :
                disp' = [disp EXCEPT ![LoopDisp] =
                           [pc |-> "selected", at |-> "", id |-> id,
                            project |-> issues[id].project,
                            agent |-> issues[id].queued_agent_id]]
    /\ UNCHANGED <<storeVars, lastCall, req, runs, hubBusy, budget, claimed>>
    /\ UNCHANGED sideVars

\* the rest of the tick: the conditional UPDATE of claimNextQueuedIssue
\* with ProcessAgentTask, then the statements of broadcastIssueChange and
\* of pushAgentStatusUpdate
DispatcherBody ==
    \/ DispClaim(LoopDisp)
    \/ DispFanOut(LoopDisp)

\* case <-ticker.C of startQueueWorker: the tick is received
WorkerTick ==
    /\ AtSelect("worker")
    /\ tickReady["worker"]
    /\ tickReady' = [tickReady EXCEPT !["worker"] = FALSE]
    /\ loopPc' = [loopPc EXCEPT !["worker"].pc = "listProjectIDs"]
    /\ UNCHANGED <<ctxDone, issueVars, clock>>
    /\ UNCHANGED otherThanLoops

\* startQueueWorker: projects, err := listProjectIDs(); on an error the
\* loop continues.  n: the ids it returns, those of the projects table or
\* "default" alone.
WorkerListProjects(n, ok) ==
    /\ loopPc["worker"].pc = "listProjectIDs"
    /\ loopPc' = [loopPc EXCEPT !["worker"] =
                    IF ok THEN [pc |-> "queueQuery", left |-> n]
                    ELSE AtTicker]
    /\ UNCHANGED <<ctxDone, tickReady, issueVars, clock>>
    /\ UNCHANGED otherThanLoops

\* the worker goes on to the next project, or is through with them
WorkerContinue(lp) ==
    IF lp.left > 1 THEN [pc |-> "queueQuery", left |-> lp.left - 1]
    ELSE AtTicker

\* startQueueWorker: the query collectQueueStatsForProject is at, one of
\* its three; on an error the loop continues with the next project
WorkerStatsQuery(ok) ==
    /\ loopPc["worker"].pc \in {"queueQuery", "inProgressQuery", "issueQuery"}
    /\ loopPc' = [loopPc EXCEPT !["worker"] =
                    IF AfterStatsQuery(@.pc, ok) = "return"
                    THEN WorkerContinue(@)
                    ELSE [pc |-> AfterStatsQuery(@.pc, ok), left |-> @.left]]
    /\ UNCHANGED <<ctxDone, tickReady, issueVars, clock>>
    /\ UNCHANGED otherThanLoops

\* startQueueWorker: broadcastAgentQueueSnapshot, then
\* broadcastAgentStatusSnapshot, each one select/default send
WorkerSendSnapshot ==
    /\ loopPc["worker"].pc \in {"queueSnapshot", "statusSnapshot"}
    /\ TrySend
    /\ loopPc' = [loopPc EXCEPT !["worker"] =
                    IF @.pc = "queueSnapshot"
                    THEN [@ EXCEPT !.pc = "statusSnapshot"]
                    ELSE WorkerContinue(@)]
    /\ UNCHANGED <<ctxDone, tickReady, storeVars, lastCall, req, disp, runs,
                   budget, claimed>>
    /\ UNCHANGED otherThanLoops

\* the statements of a tick of the worker
WorkerBody ==
    \/ \E n \in 1..MaxProjects, ok \in BOOLEAN : WorkerListProjects(n, ok)
    \/ \E ok \in BOOLEAN : WorkerStatsQuery(ok)
    \/ WorkerSendSnapshot

NextShutdown ==
    \/ Cancel
    \/ \E l \in Loops : TickerFires(l)
    \/ \E l \in Loops : LoopExit(l)
    \/ DispatcherTick
    \/ DispatcherSelect
    \/ DispatcherBody
    \/ WorkerTick
    \/ WorkerBody
    \/ HubLoop

\* A goroutine that can take a step takes one.  Go's select chooses at
\* random among its ready cases, so a loop that comes back to its select
\* again and again with ctx.Done() ready takes that case.
FairShutdown ==
    /\ \A l \in Loops : SF_vars(LoopExit(l))
    /\ WF_vars(DispatcherSelect)
    /\ WF_vars(DispatcherBody)
    /\ WF_vars(WorkerBody)
    /\ WF_vars(HubLoop)

SpecShutdown == InitLoops /\ [][NextShutdown]_vars /\ FairShutdown

(***************************************************************************)
(* SpecDrain: the Dispatcher loop, never cancelled, on a table that is     *)
(* empty at first, while up to MaxDrain requests create issues and move    *)
(* issues back to todo, statement by statement.  The ticker keeps firing   *)
(* and the goroutines keep taking their steps.                             *)
(***************************************************************************)
MaxDrain == 2

DrainPriorities == {"urgent", "low"}

DrainIds == 1..MaxDrain

DrainReqs == {1}

\* the clients send up to MaxDrain requests
InitDrain ==
    /\ issues = EmptyTable
    /\ nextId = 0
    /\ clock = 1
    /\ lastCall = NoCall
    /\ req = [r \in Reqs |-> IdleReq]
    /\ disp = [d \in Disps |-> IdleDisp]
    /\ runs = [k \in Runs |-> FreeRun]
    /\ hubBusy = FALSE
    /\ budget = MaxDrain
    /\ claimed = [i \in IssueIds |-> 0]
    /\ DialogInit
    /\ ApplyInit
    /\ HubInit
    /\ RunInit
    /\ QueryInit
    /\ TwiceInit
    /\ PureInit
    /\ NetInit

\* a request arrives: createIssueHandler with status todo, or
\* updateIssueStatusHandler with status todo
DrainRequest ==
    \/ \E r \in DrainReqs, id \in DrainIds, priority \in DrainPriorities :
            CreateInsert(r, id, "default", priority, "todo", "",
                         "backend_architect")
    \/ \E r \in DrainReqs, id \in DrainIds : UpdateRead(r, id, "todo")

\* a step of a run the Dispatcher has started
RunStep ==
    \/ \E k \in Runs : RunGenerate(k, <<>>, FALSE, FALSE)
    \/ \E k \in Runs : RunMessage(k, TRUE)
    \/ \E k \in Runs : RunMessageEvent(k)

\* the next statement of a request in flight
DrainStep ==
    \/ \E r \in DrainReqs : CreateQueue(r)
    \/ \E r \in DrainReqs : UpdateWrite(r)
    \/ \E r \in DrainReqs : UpdateQueue(r)
    \/ \E r \in DrainReqs : ReqFanOut(r)

NextDrain ==
    \/ DrainRequest
    \/ DrainStep
    \/ TickerFires("dispatcher")
    \/ DispatcherTick
    \/ DispatcherSelect
    \/ DispatcherBody
    \/ HubLoop
    \/ RunStep

\* time.NewTicker keeps firing, and the goroutines, which nothing cancels,
\* take the steps they can take.
FairDrain ==
    /\ WF_vars(TickerFires("dispatcher"))
    /\ WF_vars(DispatcherTick)
    /\ WF_vars(DispatcherSelect)
    /\ WF_vars(DispatcherBody)
    /\ WF_vars(HubLoop)
    /\ WF_vars(RunStep)
    /\ WF_vars(DrainStep)

SpecDrain == InitDrain /\ [][NextDrain]_vars /\ FairDrain

(***************************************************************************)
(* SpecHubLoop: Hub.run, one case of its select a step, with the           *)
(* goroutines that send on its three channels: wsHandler on register, the  *)
(* read pumps on unregister, and the senders of events on broadcast.       *)
(***************************************************************************)
\* select { case client.send <- message: default: ... }: the message is
\* sent, or the client is dropped when its buffer is full.  The mutant is
\* the plain send, which waits for room.
clientSend_Blocking(buf) == IF SendWouldBlock(buf) THEN "block" ELSE "send"

clientSend(buf) == IF SendWouldBlock(buf) THEN "drop" ELSE "send"

\* if _, ok := h.clients[client]; ok { delete; close(client.send) }.  The
\* mutant closes the channel of a client it no longer holds.
unregisterCloses_Unchecked(clients, c) == TRUE

unregisterCloses(clients, c) == c \in clients

otherThanHubLoop ==
    <<issueVars, clock, dialogVars, applyVars, runVars, queryVars, twiceVars,
      pureVars, chatVars, loopVars>>

InitHubLoop == InitApply

\* wsHandler: hub.register <- client, blocked until the hub receives
RegisterOffer(c) ==
    /\ connState[c] = "none"
    /\ connState' = [connState EXCEPT ![c] = "registering"]
    /\ UNCHANGED <<hubClients, sendBuf, sendClosed, delivered, lastFrame,
                   pump, nextMsg, hubLoopVars>>
    /\ UNCHANGED otherThanHubLoop

\* case client := <-h.register; wsHandler goes on and starts the pumps
HubRegister(c) ==
    /\ connState[c] = "registering"
    /\ hubClients' = hubClients \cup {c}
    /\ connState' = [connState EXCEPT ![c] = "open"]
    /\ UNCHANGED <<sendBuf, sendClosed, delivered, lastFrame, pump, nextMsg,
                   hubLoopVars>>
    /\ UNCHANGED otherThanHubLoop

\* readPump ends on a read error: its deferred c.hub.unregister <- c,
\* blocked until the hub receives
UnregisterOffer(c) ==
    /\ connState[c] = "open"
    /\ connState' = [connState EXCEPT ![c] = "unregistering"]
    /\ UNCHANGED <<hubClients, sendBuf, sendClosed, delivered, lastFrame,
                   pump, nextMsg, hubLoopVars>>
    /\ UNCHANGED otherThanHubLoop

\* case client := <-h.unregister
HubUnregister(c) ==
    /\ connState[c] = "unregistering"
    /\ connState' = [connState EXCEPT ![c] = "closed"]
    /\ IF unregisterCloses(hubClients, c)
          THEN /\ hubClients' = hubClients \ {c}
               /\ sendClosed' = [sendClosed EXCEPT ![c] = TRUE]
               /\ closes' = [closes EXCEPT ![c] = @ + 1]
          ELSE UNCHANGED <<hubClients, sendClosed, closes>>
    /\ UNCHANGED <<sendBuf, delivered, lastFrame, pump, nextMsg, offering,
                   closedSends>>
    /\ UNCHANGED otherThanHubLoop

\* a goroutine reaches its send on hub.broadcast: handleChatMessage, the
\* run's sendAgentMessage, respondToDialog
BroadcastOffer(s) ==
    /\ ~offering[s]
    /\ nextMsg + Cardinality({t \in Senders : offering[t]}) < MaxMsgs
    /\ offering' = [offering EXCEPT ![s] = TRUE]
    /\ UNCHANGED <<hubVars, closes, closedSends>>
    /\ UNCHANGED otherThanHubLoop

\* case message := <-h.broadcast: the loop over h.clients
HubBroadcastCase(s) ==
    /\ offering[s]
    /\ \A c \in hubClients : clientSend(sendBuf[c]) # "block"
    /\ offering' = [offering EXCEPT ![s] = FALSE]
    /\ nextMsg' = nextMsg + 1
    /\ LET dropped == {c \in hubClients : clientSend(sendBuf[c]) = "drop"}
           sentTo == hubClients \ dropped
       IN  /\ sendBuf' = [c \in ClientIds |->
                    IF c \in sentTo /\ ~sendClosed[c]
                       THEN Append(sendBuf[c], nextMsg + 1)
                       ELSE sendBuf[c]]
           /\ closedSends' =
                    closedSends + Cardinality({c \in sentTo : sendClosed[c]})
           /\ sendClosed' = [c \in ClientIds |->
                    sendClosed[c] \/ c \in dropped]
           /\ closes' = [c \in ClientIds |->
                    IF c \in dropped THEN closes[c] + 1 ELSE closes[c]]
           /\ hubClients' = hubClients \ dropped
    /\ UNCHANGED <<connState, delivered, lastFrame, pump>>
    /\ UNCHANGED otherThanHubLoop

\* writePump receives one message from its channel, at its select
\* (message, ok := <-c.send) or in the loop behind it (<-c.send); it is
\* running once wsHandler has registered the client and goes on receiving
\* what the channel holds after the hub has closed it.  (The frames and the
\* return of the pump are not recorded here: the pump may stop at any
\* message.)
PumpWrite(c) ==
    /\ connState[c] \in {"open", "unregistering", "closed"}
    /\ sendBuf[c] # <<>>
    /\ sendBuf' = [sendBuf EXCEPT ![c] = Tail(sendBuf[c])]
    /\ UNCHANGED <<hubClients, connState, sendClosed, delivered, lastFrame,
                   pump, nextMsg, hubLoopVars>>
    /\ UNCHANGED otherThanHubLoop

NextHubLoop ==
    \/ \E c \in ClientIds : RegisterOffer(c)
    \/ \E c \in ClientIds : HubRegister(c)
    \/ \E c \in ClientIds : UnregisterOffer(c)
    \/ \E c \in ClientIds : HubUnregister(c)
    \/ \E s \in Senders : BroadcastOffer(s)
    \/ \E s \in Senders : HubBroadcastCase(s)
    \/ \E c \in ClientIds : PumpWrite(c)

\* Hub.run is a goroutine that keeps running: a case of its select that
\* stays ready is taken.  Nothing is assumed of the clients and their pumps.
FairHubLoop ==
    /\ \A s \in Senders : WF_vars(HubBroadcastCase(s))
    /\ \A c \in ClientIds : WF_vars(HubRegister(c))
    /\ \A c \in ClientIds : WF_vars(HubUnregister(c))

SpecHubLoop == InitHubLoop /\ [][NextHubLoop]_vars /\ FairHubLoop

(***************************************************************************)
(* SpecComplete: runs that were given the id of a claimed issue reach      *)
(* markIssueCompleted while requests update and delete the issue, every    *)
(* store statement a step.                                                 *)
(***************************************************************************)
\* the issue in flight: created and queued, then claimed by the Dispatcher
InFlightIssues ==
    ClaimUpdateStmt(
        queueIssue(
            InsertIssue(EmptyTable, 1, "default", "medium", "todo",
                        "backend_architect", "backend_architect", 1),
            1, "backend_architect", 1),
        1, 1)

InitComplete ==
    /\ issues = InFlightIssues
    /\ nextId = 1
    /\ clock = 2
    /\ lastCall = NoCall
    /\ req = [r \in Reqs |-> IdleReq]
    /\ disp = [d \in Disps |-> IdleDisp]
    /\ runs = [k \in Runs |-> FreeRun]
    /\ hubBusy = FALSE
    /\ budget = MaxRequests
    /\ claimed = [i \in IssueIds |-> IF i = 1 THEN 1 ELSE 0]
    /\ DialogInit
    /\ ApplyInit
    /\ HubInit
    /\ RunInit
    /\ QueryInit
    /\ TwiceInit
    /\ PureInit
    /\ NetInit

NextComplete ==
    \/ HubLoop
    \/ \E r \in Reqs, id \in SeqIds, status \in Statuses :
            UpdateRead(r, id, status)
    \/ \E r \in Reqs : UpdateWrite(r)
    \/ \E r \in Reqs : UpdateQueue(r)
    \/ \E r \in Reqs : ReqFanOut(r)
    \/ \E r \in Reqs, id \in SeqIds : DeleteIssue(r, id)
    \/ \E id \in SeqIds, agentType \in SeqAgents :
            IssueRun("default", agentType, id)
    \/ \E k \in Runs : RunGenerate(k, <<>>, FALSE, FALSE)
    \/ \E k \in Runs : RunMessage(k, TRUE)
    \/ \E k \in Runs : RunMessageEvent(k)
    \/ \E k \in Runs : RunCompletion(k)

SpecComplete == InitComplete /\ [][NextComplete]_vars

(***************************************************************************)
(* SpecHub: connections come and go while the hub fans messages out and    *)
(* the write pumps drain the send channels.                                *)
(***************************************************************************)
InitHub == InitApply

otherThanHub ==
    <<issueVars, clock, dialogVars, applyVars, runVars, queryVars, twiceVars,
      pureVars, netVars>>

\* wsHandler: a new Client with an empty send channel, taken by the hub's
\* register case; the pumps start.
wsHandler(c) ==
    /\ connState[c] = "none"
    /\ connState' = [connState EXCEPT ![c] = "open"]
    /\ hubClients' = hubClients \cup {c}
    /\ pump' = [pump EXCEPT ![c] = [NoPump EXCEPT !.rd = "read",
                                                  !.wr = "select"]]
    /\ UNCHANGED <<sendBuf, sendClosed, delivered, lastFrame, nextMsg>>
    /\ UNCHANGED otherThanHub

\* readPump: c.conn.ReadMessage returns an error (the peer has gone, the
\* read deadline has passed or the connection was closed) and the loop
\* breaks; the deferred function is next.
readPump(c) ==
    /\ pump[c].rd = "read"
    /\ pump' = [pump EXCEPT ![c].rd = "unregister"]
    /\ UNCHANGED <<hubClients, connState, sendBuf, sendClosed, delivered,
                   lastFrame, nextMsg>>
    /\ UNCHANGED otherThanHub

\* c.hub.unregister <- c of readPump, taken by the hub's unregister case:
\* a client the hub still holds is deleted and its channel closed.
HubUnregisterCase(c) ==
    /\ pump[c].rd = "unregister"
    /\ pump' = [pump EXCEPT ![c].rd = "close"]
    /\ IF c \in hubClients
          THEN /\ hubClients' = hubClients \ {c}
               /\ sendClosed' = [sendClosed EXCEPT ![c] = TRUE]
          ELSE UNCHANGED <<hubClients, sendClosed>>
    /\ UNCHANGED <<connState, sendBuf, delivered, lastFrame, nextMsg>>
    /\ UNCHANGED otherThanHub

\* c.conn.Close() of readPump's deferred function
readPumpClose(c) ==
    /\ pump[c].rd = "close"
    /\ pump' = [pump EXCEPT ![c].rd = "done"]
    /\ connState' = [connState EXCEPT ![c] = "closed"]
    /\ UNCHANGED <<hubClients, sendBuf, sendClosed, delivered, lastFrame,
                   nextMsg>>
    /\ UNCHANGED otherThanHub

\* The broadcast case of Hub.run: one message goes to every registered
\* client, or the client whose channel is full is closed and deleted.
HubBroadcast ==
    /\ nextMsg < MaxMsgs
    /\ nextMsg' = nextMsg + 1
    /\ LET dropped == {c \in hubClients : SendWouldBlock(sendBuf[c])}
       IN  /\ sendBuf' = [c \in ClientIds |->
                    IF c \in hubClients \ dropped
                       THEN Append(sendBuf[c], nextMsg + 1)
                       ELSE sendBuf[c]]
           /\ sendClosed' = [c \in ClientIds |->
                    sendClosed[c] \/ c \in dropped]
           /\ hubClients' = hubClients \ dropped
    /\ UNCHANGED <<connState, delivered, lastFrame, pump>>
    /\ UNCHANGED otherThanHub

\* writePump, case message, ok := <-c.send: it receives the first message
\* of the channel; on a closed and empty channel it writes the close
\* message and returns.
writePump(c) ==
    /\ pump[c].wr = "select"
    /\ IF sendBuf[c] # <<>>
          THEN /\ sendBuf' = [sendBuf EXCEPT ![c] = Tail(sendBuf[c])]
               /\ pump' = [pump EXCEPT ![c].wr = "NextWriter",
                                       ![c].frame = <<Head(sendBuf[c])>>]
          ELSE /\ sendClosed[c]
               /\ pump' = [pump EXCEPT ![c].wr = "return"]
               /\ UNCHANGED sendBuf
    /\ UNCHANGED <<hubClients, connState, sendClosed, delivered, lastFrame,
                   nextMsg>>
    /\ UNCHANGED otherThanHub

\* w, err := c.conn.NextWriter(...): on an error writePump returns and the
\* message it received is written nowhere; otherwise w.Write(message).
writePumpNextWriter(c, ok) ==
    /\ pump[c].wr = "NextWriter"
    /\ pump' = [pump EXCEPT
            ![c].wr = IF ok THEN "len" ELSE "return",
            ![c].frame = IF ok THEN wWrite(<<>>, pump[c].frame[1]) ELSE <<>>]
    /\ UNCHANGED <<hubClients, connState, sendBuf, sendClosed, delivered,
                   lastFrame, nextMsg>>
    /\ UNCHANGED otherThanHub

\* n := len(c.send)
writePumpLen(c) ==
    /\ pump[c].wr = "len"
    /\ pump' = [pump EXCEPT
            ![c].n = Len(sendBuf[c]),
            ![c].wr = IF Len(sendBuf[c]) > 0 THEN "loop" ELSE "Close"]
    /\ UNCHANGED <<hubClients, connState, sendBuf, sendClosed, delivered,
                   lastFrame, nextMsg>>
    /\ UNCHANGED otherThanHub

\* one turn of for i := 0; i < n; i++: w.Write(<-c.send).  Only writePump
\* receives from the channel, so the n messages counted are still there.
writePumpLoop(c) ==
    /\ pump[c].wr = "loop"
    /\ sendBuf' = [sendBuf EXCEPT ![c] = Tail(sendBuf[c])]
    /\ pump' = [pump EXCEPT
            ![c].frame = wWrite(pump[c].frame, Head(sendBuf[c])),
            ![c].n = pump[c].n - 1,
            ![c].wr = IF pump[c].n > 1 THEN "loop" ELSE "Close"]
    /\ UNCHANGED <<hubClients, connState, sendClosed, delivered, lastFrame,
                   nextMsg>>
    /\ UNCHANGED otherThanHub

\* w.Close(): the frame goes out to the peer and writePump is back at its
\* select, or, on an error, writePump returns.  The write of a frame to a
\* connection that was closed fails.
writePumpClose(c, ok) ==
    /\ pump[c].wr = "Close"
    /\ ok => connState[c] = "open"
    /\ IF ok
          THEN /\ delivered' = [delivered EXCEPT ![c] = @ \o pump[c].frame]
               /\ lastFrame' = [lastFrame EXCEPT ![c] = Len(pump[c].frame)]
               /\ pump' = [pump EXCEPT ![c].wr = "select", ![c].frame = <<>>]
          ELSE /\ pump' = [pump EXCEPT ![c].wr = "return", ![c].frame = <<>>]
               /\ UNCHANGED <<delivered, lastFrame>>
    /\ UNCHANGED <<hubClients, connState, sendBuf, sendClosed, nextMsg>>
    /\ UNCHANGED otherThanHub

\* writePump, case <-ticker.C: the write of the ping message fails and
\* writePump returns.  (A ping that is written changes nothing.)
writePumpPing(c) ==
    /\ pump[c].wr = "select"
    /\ pump' = [pump EXCEPT ![c].wr = "return"]
    /\ UNCHANGED <<hubClients, connState, sendBuf, sendClosed, delivered,
                   lastFrame, nextMsg>>
    /\ UNCHANGED otherThanHub

\* the deferred function of writePump: ticker.Stop() and c.conn.Close().
\* The client stays in h.clients until its readPump unregisters it or a
\* broadcast finds its channel full.
writePumpReturn(c) ==
    /\ pump[c].wr = "return"
    /\ pump' = [pump EXCEPT ![c].wr = "done"]
    /\ connState' = [connState EXCEPT ![c] = "closed"]
    /\ UNCHANGED <<hubClients, sendBuf, sendClosed, delivered, lastFrame,
                   nextMsg>>
    /\ UNCHANGED otherThanHub

NextHub ==
    \/ \E c \in ClientIds : wsHandler(c)
    \/ \E c \in ClientIds : readPump(c)
    \/ \E c \in ClientIds : HubUnregisterCase(c)
    \/ \E c \in ClientIds : readPumpClose(c)
    \/ HubBroadcast
    \/ \E c \in ClientIds : writePump(c)
    \/ \E c \in ClientIds, ok \in BOOLEAN : writePumpNextWriter(c, ok)
    \/ \E c \in ClientIds : writePumpLen(c)
    \/ \E c \in ClientIds : writePumpLoop(c)
    \/ \E c \in ClientIds, ok \in BOOLEAN : writePumpClose(c, ok)
    \/ \E c \in ClientIds : writePumpPing(c)
    \/ \E c \in ClientIds : writePumpReturn(c)

SpecHub == InitHub /\ [][NextHub]_vars

(***************************************************************************)
(* Claims on the issue store, the Dispatcher and the runner                *)
(***************************************************************************)

\* C1: in every reachable state, every issue whose queued_agent_id is not
\* null has status 'todo', under any interleaving of the store statements of
\* create_issue, update_issue_status, the claim, the completion and
\* delete_issue.
C1_QueuedOnlyIfTodo ==
    \A i \in IssueIds :
        (Exists(issues, i) /\ issues[i].queued_agent_id # Null)
            => issues[i].status = "todo"

\* C4: for each time an issue becomes todo, at most one claim attempt
\* transitions it to inProgress and returns it; concurrent and later
\* attempts get no issue for it.
C4_AtMostOneClaimPerQueueing ==
    \A i \in IssueIds : claimed[i] <= 1

\* C4 witness: two calls selected the same issue; one has claimed it and
\* returned it, the other still holds it for its UPDATE.
C4_Witness ==
    \E i \in IssueIds : \E d \in Disps :
        /\ disp[d].pc = "selected"
        /\ disp[d].id = i
        /\ Exists(issues, i)
        /\ issues[i].status = "inProgress"
        /\ claimed[i] = 1

\* A run is between the start of applyActionPlan and the end of
\* CommitWorkspaceChanges
MutatesWorkspace(k) == runs[k].pc \in {"applying", "committing"}

\* C5: at any time at most one run is mutating a given project's workspace.
C5_OneRunPerWorkspace ==
    \A k1, k2 \in Runs :
        (k1 # k2 /\ MutatesWorkspace(k1) /\ MutatesWorkspace(k2))
            => runs[k1].project # runs[k2].project

\* C8: a second update_issue_status(i, s) right after the first leaves the
\* issue as the first call left it.
C8_UpdateTwiceSame ==
    [][(lastCall # NoCall /\ lastCall' = lastCall) => issues' = issues]_vars

\* C9: when the run that the Dispatcher started for a claimed issue has
\* finished, the issue (if it still exists) has status 'done', no queued
\* agent and completed_at set.
C9_RunEndsDone ==
    [][\A k \in Runs :
          (/\ runs[k].prompt # 0
           /\ runs'[k].pc = "free"
           /\ Exists(issues', runs[k].prompt))
          => /\ issues'[runs[k].prompt].status = "done"
             /\ issues'[runs[k].prompt].queued_agent_id = Null
             /\ issues'[runs[k].prompt].completed_at # NoTime]_vars

\* the step is the send of broadcastIssueChange in an update request or in
\* the Dispatcher's tick: the issue.updated event of a transition
SendsIssueUpdated ==
    \/ \E r \in Reqs : /\ req[r].pc = "u_bcast"
                        /\ req[r].at = "send"
                        /\ req'[r] # req[r]
    \/ \E d \in Disps : /\ disp[d].pc = "d_bcast"
                         /\ disp[d].at = "send"
                         /\ disp'[d] # disp[d]

\* C10: every status transition results in exactly one issue.updated event
\* received by the hub: the event that broadcastIssueChange sends for the
\* transition of an update request or of a claim is sent while the hub
\* waits in its select, so it is received and not dropped.
C10_OneEventPerTransition == [][SendsIssueUpdated => HubReceives]_vars

\* C2: applyActionPlan never creates or modifies a file outside the
\* workspace directory, whatever paths the plan names: paths with "..",
\* rooted paths, and paths into a directory next to the workspace whose
\* name starts with the workspace directory's name.
C2_NoWriteOutsideWorkspace == \A path \in written : Inside(path)

\* C3: if a path of the plan, in files or in mutations, resolves outside
\* the workspace, applyActionPlan returns an error, whatever the other
\* fields of the entry are and whatever entries came before it.
C3_EscapeIsError == (apPc = "done" /\ escapeSeen) => apResult = "error"

\* C6: of the respondToDialog calls on one dialog at most one succeeds, at
\* most one dialog.responded event and one system message are emitted, and
\* the event carries the selected option that is stored.
C6_OneResolveWins ==
    \A d \in DialogIds :
        /\ successes[d] <= 1
        /\ dlgEvents[d].count <= 1
        /\ sysMessages[d] <= 1
        /\ dlgEvents[d].count = 1 =>
              dlgEvents[d].selectedOption = dialogs[d].selected_option

\* a respondToDialog call on the dialog goes on to the UPDATE in this step
CallProceeds(dialogID) ==
    \E c \in Calls : /\ calls[c].pc = "idle"
                     /\ calls'[c].pc = "update"
                     /\ calls'[c].dialog = dialogID

\* a respondToDialog call on the dialog starts in this step
CallStarts(dialogID) ==
    \/ CallProceeds(dialogID)
    \/ /\ calls' = calls
       /\ lastReturn' # lastReturn
       /\ lastReturn'.dialog = dialogID

\* C7: a resolved dialog stays as it is: no step changes its status, its
\* selected option, who responded or when; and a respondToDialog call that
\* starts when the dialog is resolved returns "dialog already resolved"
\* and emits neither an event nor a system message.
C7_ResolvedIsFinal ==
    [][\A d \in DialogIds :
          (Exists(dialogs, d) /\ dialogs[d].status = "resolved") =>
              /\ dialogs'[d] = dialogs[d]
              /\ CallStarts(d) =>
                    /\ ~CallProceeds(d)
                    /\ lastReturn'.result = "dialog already resolved"
                    /\ dlgEvents' = dlgEvents
                    /\ sysMessages' = sysMessages]_vars

C7_Witness ==
    /\ lastReturn.result = "dialog already resolved"
    /\ Exists(dialogs, lastReturn.dialog)
    /\ dialogs[lastReturn.dialog].status = "resolved"
    /\ dialogs[lastReturn.dialog].responded_at < clock

(***************************************************************************)
(* Claims on the hub                                                       *)
(***************************************************************************)
Last(seq) == seq[Len(seq)]

\* seq is what is left of old after some of its first elements were taken
IsSuffix(seq, old) ==
    \E k \in 0..Len(old) : seq = SubSeq(old, k + 1, Len(old))

\* C11: when the hub fans a message out, a registered client whose send
\* buffer is full is closed and removed at that send and gets nothing from
\* the hub afterwards, while every other registered client, having free
\* buffer space, receives the message (and stays registered for the later
\* ones).
C11_SlowClientDropped ==
    [][/\ nextMsg' # nextMsg =>
            \A c \in ClientIds :
                IF c \in hubClients
                   THEN IF Len(sendBuf[c]) = SendBufferCap
                           THEN /\ c \notin hubClients'
                                /\ sendClosed'[c]
                                /\ sendBuf'[c] = sendBuf[c]
                           ELSE /\ c \in hubClients'
                                /\ ~sendClosed'[c]
                                /\ sendBuf'[c] = Append(sendBuf[c], nextMsg')
                   ELSE sendBuf'[c] = sendBuf[c]
       /\ \A c \in ClientIds :
            (sendClosed[c] \/ (c \notin hubClients /\ connState[c] # "none"))
                => /\ c \notin hubClients'
                   /\ sendClosed'[c] = sendClosed[c]
                   /\ IsSuffix(sendBuf'[c], sendBuf[c])
      ]_vars

\* C11 witness: the hub closed a client on a full buffer while its
\* connection was open and its write pump at its select, and another
\* client has received that broadcast and the one after it.
C11_Witness ==
    \E c1, c2 \in ClientIds :
        /\ connState[c1] = "open"
        /\ pump[c1].wr = "select"
        /\ sendClosed[c1]
        /\ Len(sendBuf[c1]) = SendBufferCap
        /\ c2 \in hubClients
        /\ nextMsg >= Last(sendBuf[c1]) + 2
        /\ LET got == delivered[c2] \o pump[c2].frame \o sendBuf[c2]
           IN  \A m \in (Last(sendBuf[c1]) + 1)..nextMsg :
                    \E i \in 1..Len(got) : got[i] = m

\* C12: each client is written the hub's messages in the order in which the
\* hub received them, the messages coalesced into one frame included: the
\* messages written to it, those of the frame its write pump is writing
\* and those in its buffer are in that order.
C12_OrderPreserved ==
    \A c \in ClientIds :
        LET got == delivered[c] \o pump[c].frame \o sendBuf[c]
        IN  \A i, j \in 1..Len(got) : i < j => got[i] < got[j]

\* C12 witness: after an earlier frame, a frame was written that holds
\* more messages than the buffer has room for: the hub sent the last of
\* them after the write pump had received the first.
C12_Witness ==
    \E c \in ClientIds :
        /\ lastFrame[c] > SendBufferCap
        /\ Len(delivered[c]) > lastFrame[c]

(***************************************************************************)
(* Claims on the timestamps of an issue                                    *)
(***************************************************************************)

\* C13: started_at and completed_at are write-once: no update_issue_status
\* call, claim or completion makes a non-null started_at (completed_at)
\* of an issue null or changes its value.
C13_TimestampsWriteOnce ==
    [][\A i \in IssueIds :
          (Exists(issues, i) /\ Exists(issues', i)) =>
              /\ issues[i].started_at # NoTime
                    => issues'[i].started_at = issues[i].started_at
              /\ issues[i].completed_at # NoTime
                    => issues'[i].completed_at = issues[i].completed_at
      ]_vars

\* C13 witness: an issue started and completed earlier was, at a later time,
\* moved to inProgress again by update_issue_status.
C13_Witness ==
    \E i \in IssueIds :
        /\ Exists(issues, i)
        /\ lastCall = [id |-> i, status |-> "inProgress"]
        /\ issues[i].started_at # NoTime
        /\ issues[i].started_at < clock
        /\ issues[i].completed_at # NoTime
        /\ issues[i].completed_at < clock
        /\ issues[i].started_at < issues[i].completed_at

\* C14: in every reachable state an issue with status 'inProgress' has
\* started_at set and an issue with status 'done' has completed_at set,
\* whichever operation put it in that status.
C14_StatusImpliesTimestamp ==
    \A i \in IssueIds :
        Exists(issues, i) =>
            /\ issues[i].status = "inProgress" => issues[i].started_at # NoTime
            /\ issues[i].status = "done" => issues[i].completed_at # NoTime

(***************************************************************************)
(* Claims on a run of the AgentRunner                                      *)
(***************************************************************************)

\* The place of an effect in the order C15 states, by the words of the
\* claim: issue rows and issue.created, mention messages (the messages of
\* type 'system'), dialog rows and dialog.requested come first, the
\* agent's chat message (type 'chat') fourth.
EffectRank(effect) ==
    CASE effect.name \in {"issueRow", "issue.created", "dialogRow",
                          "dialog.requested"} -> 1
      [] effect.name \in {"messageRow", "message.received"}
            /\ effect.kind = "system" -> 1
      [] effect.name = "apply" -> 2
      [] effect.name = "commit" -> 3
      [] effect.name \in {"messageRow", "message.received"}
            /\ effect.kind = "chat" -> 4
      [] effect.name \in {"issueDone", "issue.updated"} -> 5
      [] OTHER -> 0

\* The place of an effect when the issue row and the issue.created event
\* of proposeTask (status 'proposed') are told from those of an issue
\* block (status 'todo'): they come sixth.
StageRank(effect) ==
    IF effect.name \in {"issueRow", "issue.created"} /\ effect.kind = "proposed"
    THEN 6
    ELSE EffectRank(effect)

\* C15 as stated: within one run the effects occur in this order: issue
\* rows and issue.created, mention messages, dialog rows and
\* dialog.requested, then the workspace apply, then the commit, then the
\* agent chat message, then the issue completion and its issue.updated
\* event.
C15_EffectOrder ==
    \A i, j \in 1..Len(agEffects) :
        i < j => EffectRank(agEffects[i]) <= EffectRank(agEffects[j])

\* C15 amended: within one run the effects occur in this order: the
\* effects of the structured blocks (rows of issues of status todo and
\* their issue.created, mention messages, dialog rows and
\* dialog.requested), then the workspace apply, then the commit, then the
\* agent chat message, then the issue completion and its issue.updated
\* event, then the proposed issue of proposeTask and its issue.created;
\* a run has no other effect.
C15_EffectOrderThenProposal ==
    /\ \A i \in 1..Len(agEffects) : StageRank(agEffects[i]) \in 1..6
    /\ \A i, j \in 1..Len(agEffects) :
          i < j => StageRank(agEffects[i]) <= StageRank(agEffects[j])

\* C15 witness: a finished run that had effects of all six kinds, the
\* first of them a mention message.
C15_Witness ==
    /\ agPc = "done"
    /\ agEffects # <<>>
    /\ agEffects[1] = Effect("messageRow", "system")
    /\ \A r \in 1..6 :
          \E i \in 1..Len(agEffects) : StageRank(agEffects[i]) = r

(***************************************************************************)
(* Claims on the queries                                                   *)
(***************************************************************************)

\* The priorities from best to worst, as C16 orders them.
PriorityOrder == <<"urgent", "high", "medium", "low">>

PlaceOf(p) == CHOOSE k \in 1..Len(PriorityOrder) : PriorityOrder[k] = p

QEligible(i) ==
    /\ qIssues[i] # Absent
    /\ qIssues[i].status = "todo"
    /\ qIssues[i].queued_agent_id # Null

\* C16: the issue a claim's read returns is minimal among the issues with
\* status 'todo' and a queued agent: no other such issue has a strictly
\* better priority, and none of the same priority has an earlier queued_at.
C16_ClaimReturnsMinimal ==
    (qResult.kind = "claim" /\ qResult.id # 0) =>
        /\ QEligible(qResult.id)
        /\ \A j \in QueryIds :
              QEligible(j) =>
                  /\ PlaceOf(qIssues[j].priority)
                        >= PlaceOf(qIssues[qResult.id].priority)
                  /\ (qIssues[j].priority = qIssues[qResult.id].priority)
                        => qIssues[j].queued_at >= qIssues[qResult.id].queued_at

\* C16 witness: the read returned an issue while an issue of a worse
\* priority was queued earlier and an issue of the same priority later.
C16_Witness ==
    /\ qResult.kind = "claim"
    /\ qResult.id # 0
    /\ \E j, k \in QueryIds :
          /\ QEligible(j)
          /\ QEligible(k)
          /\ PlaceOf(qIssues[j].priority) > PlaceOf(qIssues[qResult.id].priority)
          /\ qIssues[j].queued_at < qIssues[qResult.id].queued_at
          /\ k # qResult.id
          /\ qIssues[k].priority = qIssues[qResult.id].priority
          /\ qIssues[k].queued_at > qIssues[qResult.id].queued_at

\* The entries of a result that are about one agent.
EntriesOf(agentID) ==
    {i \in 1..Len(qResult.stats) : qResult.stats[i].agent_id = agentID}

HasWork(agentID) ==
    \E i \in QueryIds :
        /\ qIssues[i] # Absent
        /\ qIssues[i].project = qResult.project
        /\ \/ qIssues[i].status = "todo" /\ qIssues[i].queued_agent_id = agentID
           \/ /\ qIssues[i].status = "inProgress"
              /\ qIssues[i].assigned_agent_id = agentID

\* What C19 says of a list: it has exactly one entry for each default
\* agent id, with counts zero and status 'idle' for a default agent with
\* no queued and no in-progress issue.
OneEntryPerDefaultAgent ==
    \A a \in {"product_manager", "backend_architect", "frontend_developer"} :
        /\ Cardinality(EntriesOf(a)) = 1
        /\ ~HasWork(a) =>
              \A i \in EntriesOf(a) :
                  /\ qResult.stats[i].queue_depth = 0
                  /\ qResult.stats[i].in_progress = 0
                  /\ qResult.stats[i].status = "idle"

\* C19 as stated: for every project and store state, collect_queue_stats
\* returns exactly one entry for each default agent id; for a default agent
\* with no queued and no in-progress issue the counts are zero and the
\* status is 'idle'.
C19_OneEntryPerDefaultAgent ==
    qResult.kind \in {"stats", "statsError"} => OneEntryPerDefaultAgent

\* C19 amended: every list collect_queue_stats returns has exactly one
\* entry for each default agent id, with counts zero and status 'idle' for
\* a default agent with no queued and no in-progress issue; it returns a
\* list unless one of its two counting queries fails, and then it returns
\* no entry at all.
C19_OneEntryInEveryList ==
    /\ qResult.kind = "stats" => OneEntryPerDefaultAgent
    /\ qResult.kind = "statsError" => qResult.stats = <<>>

\* C19 witness: a list in which a default agent is working, the other
\* default agents have nothing, and two agents that are not default agents
\* have an entry too, one of them the empty string of a row in progress.
C19_Witness ==
    /\ qResult.kind = "stats"
    /\ HasWork("backend_architect")
    /\ ~HasWork("product_manager")
    /\ ~HasWork("frontend_developer")
    /\ HasWork("qa_tester")
    /\ Len(qResult.stats) = 5
    /\ EntriesOf("") # {}

(***************************************************************************)
(* Claims on dialogs with no options                                       *)
(***************************************************************************)

\* C17: resolving a dialog whose options list is empty with a non-empty
\* selected value succeeds only if the dialog has a non-empty
\* default_option; with an empty default_option the resolve returns an
\* error and the dialog stays open.
C17_EmptyOptionsNeedDefault ==
    \A d \in DialogIds :
        (/\ Exists(dialogs, d)
         /\ dialogs[d].options = <<>>
         /\ dialogs[d].default_option = <<>>)
            => dialogs[d].status = "open"

(***************************************************************************)
(* Claims on applying a plan twice                                         *)
(***************************************************************************)

\* the outcomes of an application that has made a commit
Commits == {"committed", "pushed", "pushfailed"}

\* C18: applying the same plan twice in a row to a clean workspace gives
\* one commit on the first application and no commit on the second, for
\* every plan, also when a mutation's find text occurs more than once in
\* the file or occurs in the replacement text.  Stated for the plans whose
\* first application commits: the second does not commit.  In a row: no
\* application was under way while the other was.
C18_SecondApplyNoCommit ==
    (/\ \A k \in TwiceRuns : twRuns[k].alone
     /\ Len(twResults) = 2
     /\ twResults[1] \in Commits)
        => twResults[2] \notin Commits

(***************************************************************************)
(* Claims on the status values                                             *)
(***************************************************************************)

\* C20: after any sequence of create_issue and update_issue_status calls
\* every stored issue has its status in {proposed, todo, inProgress, review,
\* done}; a request carrying another status value is rejected and leaves the
\* store unchanged.
C20_StatusInEnum ==
    \A i \in IssueIds :
        Exists(issues, i) =>
            issues[i].status \in
                {"proposed", "todo", "inProgress", "review", "done"}

(***************************************************************************)
(* Claims on the agent detector and the chat path                          *)
(***************************************************************************)

\* The reference of C21 on a lowercased text: a keyword rule matches when
\* its keyword occurs, for a word-only rule with no letter or digit next to
\* the occurrence on either side.
RefMatches(lower, rule) ==
    \E i \in 0..(Len(lower) - Len(rule.keyword)) :
        /\ SubSeq(lower, i + 1, i + Len(rule.keyword)) = rule.keyword
        /\ rule.wordOnly =>
              /\ i = 0 \/ ~isAlphaNum(lower[i])
              /\ \/ i + Len(rule.keyword) = Len(lower)
                 \/ ~isAlphaNum(lower[i + Len(rule.keyword) + 1])

RefDetect(text) ==
    LET lower == LowerStr(text)
        mentioned == {k \in 1..Len(mentionTriggers) :
                        Contains(lower, mentionTriggers[k].token)}
        matching == {k \in 1..Len(keywordRules) :
                        RefMatches(lower, keywordRules[k])}
        best == {k \in matching :
                    \A j \in matching :
                        \/ keywordRules[j].priority < keywordRules[k].priority
                        \/ /\ keywordRules[j].priority = keywordRules[k].priority
                           /\ k <= j}
    IN IF mentioned # {}
       THEN mentionTriggers[CHOOSE k \in mentioned :
                                \A j \in mentioned : k <= j].agent
       ELSE IF matching = {} THEN ""
       ELSE keywordRules[CHOOSE k \in best : TRUE].agent

\* C21: detect(text) is the agent of the first mention token, in
\* registration order, that occurs in the lowercased text; failing that the
\* agent of the matching keyword rule of highest priority, the first in
\* declaration order on a tie; and empty when no rule matches.  Hence
\* detect(x) = detect(lower(x)).
C21_DetectIsReference ==
    pfOut.kind = "detect" =>
        /\ pfOut.agent = RefDetect(pfIn)
        /\ pfOut.lowerAgent = pfOut.agent

\* C21 witness: a text in upper and lower case without a mention, holding
\* two keywords of the same highest priority of different agents, the one
\* declared later first, and a generic verb.
C21_Witness ==
    /\ pfOut.kind = "detect"
    /\ pfIn = <<"f", "r", "o", "n", "t", "e", "n", "d",
                "b", "a", "c", "k", "e", "n", "d",
                "b", "u", "i", "l", "d">>
    /\ pfOut.agent = "backend_architect"

\* C22: chat routing is deterministic: for the same text two runs of the
\* chat path select the same agent, or both select none.
C22_RoutingDeterministic ==
    pfOut.kind = "route" => pfOut.first = pfOut.second

(***************************************************************************)
(* Claims on the structured blocks                                         *)
(***************************************************************************)
IsHeaderLine(l) == TrimSpace(l) # <<>> /\ Head(TrimSpace(l)) = "@"

IsDashLine(l) == TrimSpace(l) = <<"-", "-", "-">>

\* The blocks of a text, read from line i on: a header line opens a block
\* that runs to the next '---' line, or to the end of the text when there
\* is none (closed is FALSE then); lines inside a block open none.
RECURSIVE BlockSpans(_, _)
BlockSpans(lines, i) ==
    IF i > Len(lines) THEN {}
    ELSE IF ~IsHeaderLine(lines[i]) THEN BlockSpans(lines, i + 1)
    ELSE IF \E j \in (i + 1)..Len(lines) : IsDashLine(lines[j])
    THEN LET last == CHOOSE j \in (i + 1)..Len(lines) :
                        /\ IsDashLine(lines[j])
                        /\ \A k \in (i + 1)..(j - 1) : ~IsDashLine(lines[k])
         IN {[first |-> i, last |-> last, closed |-> TRUE]}
                \cup BlockSpans(lines, last + 1)
    ELSE {[first |-> i, last |-> Len(lines), closed |-> FALSE]}

\* the lines at the positions of keep, in order
RECURSIVE LinesAt(_, _, _)
LinesAt(lines, keep, i) ==
    IF i > Len(lines) THEN <<>>
    ELSE (IF i \in keep THEN <<lines[i]>> ELSE <<>>)
             \o LinesAt(lines, keep, i + 1)

\* C23: the blocks returned are the terminated ones, none of their lines
\* (header, body, '---') is in the cleaned text, and every line outside
\* them, the header and the body of a block without '---' included, is left
\* in the cleaned text (which is trimmed as a whole).
C23_ReturnedBlocksRemovedOthersKept ==
    pfOut.kind = "extract" =>
        LET lines == Split(pfIn)
            spans == BlockSpans(lines, 1)
            closed == {b \in spans : b.closed}
            outside == {i \in 1..Len(lines) :
                           \A b \in closed : i < b.first \/ i > b.last}
        IN /\ Len(pfOut.blocks) = Cardinality(closed)
           /\ pfOut.clean = TrimSpace(JoinLines(LinesAt(lines, outside, 1)))

\* C23 witness: a terminated block followed by a header and a body line
\* with no '---' after them.
C23_Witness ==
    /\ pfOut.kind = "extract"
    /\ pfIn = <<"@", "i", "\n", "-", "-", "-", "\n", "@", "i", "\n", "x">>
    /\ Len(pfOut.blocks) = 1
    /\ pfOut.clean = <<"@", "i", "\n", "x">>

(***************************************************************************)
(* Claims on the failures of a run                                         *)
(***************************************************************************)
EffectsSoFar == {agEffects[i].name : i \in 1..Len(agEffects)}

\* C24: a run whose AI call returned an error or no text creates no issue,
\* no dialog and no mention, applies nothing to the workspace, attempts no
\* commit, and the only chat message it posts is the fallback of the
\* agent.
C24_AiFailureOnlyFallback ==
    agLocals.aiOutcome \in {"error", "empty"} =>
        /\ EffectsSoFar \cap {"issueRow", "issue.created", "dialogRow",
                              "dialog.requested"} = {}
        /\ \A i \in 1..Len(agEffects) :
              agEffects[i].name \in {"messageRow", "message.received"}
                  => agEffects[i].kind = "chat"
        /\ "apply" \notin EffectsSoFar
        /\ "commit" \notin EffectsSoFar
        /\ agPc \notin {"blocks", "plan", "commit"}
        /\ agLocals.responseText = "fallback"

\* C25: once applyActionPlan has returned an error the run attempts no
\* commit and the text of its message is the one with 'produced changes
\* but hit an error'.
C25_ApplyErrorNoCommit ==
    agLocals.applyErr =>
        /\ agPc # "commit"
        /\ "commit" \notin EffectsSoFar
        /\ agLocals.responseText = "applyError"

\* C25 witness: a run whose plan failed to apply has posted its message.
C25_Witness ==
    /\ agLocals.applyErr
    /\ "apply" \in EffectsSoFar
    /\ "message.received" \in EffectsSoFar
    /\ agPc = "done"

\* C26: a run whose plan parsed and has no files and no mutations replies
\* with the workspace summary (files=0, mutations=0) and makes no commit.
C26_EmptyPlanSummary ==
    (agLocals.planForMessage = "empty" /\ agPc = "done") =>
        /\ agLocals.responseText = "summary"
        /\ "commit" \notin EffectsSoFar

(***************************************************************************)
(* Claims on the subject of a commit                                       *)
(***************************************************************************)
\* What C27 requires of the subject for a first line: at most 72 runes; a
\* line longer than 72 runes cut to its first 69 followed by '...'; a line
\* of 72 runes or fewer unchanged.
SubjectOfLine(subject, line) ==
    /\ Len(subject) <= 72
    /\ Len(line) > 72 => subject = SubSeq(line, 1, 69) \o <<".", ".", ".">>
    /\ Len(line) <= 72 => subject = line

\* C27 as stated: for every commit message the subject is the trimmed
\* first line of the message, cut to 72 runes as above.
C27_SubjectIsTrimmedFirstLine ==
    pfOut.kind = "subject" =>
        SubjectOfLine(pfOut.subject, TrimSpace(Split(pfIn)[1]))

\* C27 as amended: for every commit message that is not blank the subject
\* is the trimmed first line of the trimmed message, cut to 72 runes as
\* above; a blank message gives 'Automated workspace update'.
C27_SubjectOfTrimmedMessage ==
    pfOut.kind = "subject" =>
        IF TrimSpace(pfIn) = <<>>
        THEN pfOut.subject = DefaultSubject
        ELSE SubjectOfLine(pfOut.subject,
                           TrimSpace(Split(TrimSpace(pfIn))[1]))

\* C27 witness: a message whose first line has 73 runes and that has a
\* second line gets a subject of 72 runes that ends in '...'.
C27_Witness ==
    /\ pfOut.kind = "subject"
    /\ pfIn = LineOf(73) \o <<" ", "\n", "x">>
    /\ Len(pfOut.subject) = 72
    /\ SubSeq(pfOut.subject, 69, 72) = <<"c", ".", ".", ".">>

(***************************************************************************)
(* Claims on the Dispatcher                                                *)
(***************************************************************************)
\* the step is a send of the Dispatcher's fan-out for the issue it has
\* claimed: the issue.updated event or one of the two snapshots
FanOutSend(d) ==
    /\ disp[d].at \in {"send", "queueSnapshot", "statusSnapshot"}
    /\ disp'[d] # disp[d]

\* C28: the Dispatcher sends the issue.updated event and the two snapshots
\* of a claimed issue after the run of that issue has finished: when it
\* sends them the run it started for the issue is over and the issue is no
\* longer in progress.
C28_FanOutAfterRun ==
    [][\A d \in Disps :
          FanOutSend(d) =>
              /\ \A k \in Runs : runs[k].prompt # disp[d].id
              /\ Exists(issues, disp[d].id) =>
                    issues[disp[d].id].status # "inProgress"]_vars

\* The step is the conditional UPDATE of a claimNextQueuedIssue call of
\* Dispatcher d that changed a row: the call returns the issue
ClaimedInStep(d) == disp[d].pc = "selected" /\ disp'[d].pc = "d_bcast"

\* The step is the conditional UPDATE of a call that changed no row: the
\* call returns nil
NilInStep(d) == disp[d].pc = "selected" /\ disp'[d].pc = "idle"

\* C29: a claim that succeeds changes, of the claimed issue, the status to
\* inProgress, started_at to the time of the claim unless it was set,
\* assigned_agent_id to the queued agent unless it was set, and
\* queued_agent_id to null; every other field and every other issue stay
\* as they were, so one tick claims at most one issue; a tick that claims
\* nothing changes nothing.
C29_ClaimFrame ==
    [][\A d \in Disps :
          /\ ClaimedInStep(d) =>
                issues' =
                    [issues EXCEPT
                        ![disp[d].id].status = "inProgress",
                        ![disp[d].id].started_at =
                            IF @ # NoTime THEN @ ELSE clock,
                        ![disp[d].id].assigned_agent_id =
                            IF @ # Null THEN @
                            ELSE issues[disp[d].id].queued_agent_id,
                        ![disp[d].id].queued_agent_id = Null]
          /\ NilInStep(d) => issues' = issues]_vars

\* C29 witness: a tick has claimed an issue that had been started before
\* (its started_at is earlier than the claim) while another issue was
\* queued, which is still queued.
C29_Witness ==
    \E d \in Disps : \E i, j \in IssueIds :
        /\ i # j
        /\ disp[d].pc = "d_bcast"
        /\ disp[d].id = i
        /\ Exists(issues, i)
        /\ issues[i].status = "inProgress"
        /\ issues[i].started_at # NoTime
        /\ issues[i].started_at < clock
        /\ issues[i].queued_agent_id = Null
        /\ Exists(issues, j)
        /\ issues[j].status = "todo"
        /\ issues[j].queued_agent_id # Null

\* C30: the Dispatcher claims an issue only when its status is todo and
\* its queued_agent_id is not null: a task proposed by an agent (status
\* proposed, no queued agent) is not claimed before a status update has
\* moved it to todo.
C30_ClaimsOnlyQueuedTodo ==
    [][\A d \in Disps :
          ClaimedInStep(d) =>
              /\ Exists(issues, disp[d].id)
              /\ issues[disp[d].id].status = "todo"
              /\ issues[disp[d].id].queued_agent_id # Null]_vars


(***************************************************************************)
(* Claims on the @issue block                                              *)
(***************************************************************************)
\* The blocks of the reply that have a title and whose INSERT succeeded,
\* in order
RECURSIVE MadeBlocks(_, _, _)
MadeBlocks(bs, oks, k) ==
    IF k > Len(bs) THEN <<>>
    ELSE (IF bs[k].title.expect # <<>> /\ oks[k] THEN <<bs[k]>> ELSE <<>>)
             \o MadeBlocks(bs, oks, k + 1)

\* C31: every @issue block with a title creates one issue: status todo,
\* created by the emitting agent, the priority one of the four (medium for
\* any other value), queued (and assigned) to the normalized assignee or,
\* when there is none or it is unknown, to the emitting agent, so that the
\* issue is eligible for the Dispatcher; and one issue.created event is
\* sent for it.  Blocks without a title create nothing.
C31_IssueBlockCreatesQueuedIssue ==
    pfOut.kind = "blocks" =>
        LET made == MadeBlocks(pfIn.blocks, pfOut.oks, 1)
        IN /\ Len(pfOut.rows) = Len(made)
           /\ Len(pfOut.events) = Len(made)
           /\ \A k \in 1..Len(made) :
                LET row == pfOut.rows[k]
                    target == IF made[k].assignee.expect # ""
                              THEN made[k].assignee.expect
                              ELSE pfIn.agentType
                IN /\ row.title = made[k].title.expect
                   /\ row.status = "todo"
                   /\ row.created_by = pfIn.agentType
                   /\ row.priority = made[k].priority.expect
                   /\ row.priority \in {"urgent", "high", "medium", "low"}
                   /\ row.queued_agent_id = target
                   /\ row.assigned_agent_id = target
                   /\ pfOut.events[k].type = "issue.created"
                   /\ pfOut.events[k].title = row.title
                   /\ pfOut.events[k].assignee = target

\* C31 witness: a block with a title, a priority that is none of the four
\* and an assignee written with a space and capitals, emitted by another
\* agent, has created its issue.
C31_Witness ==
    /\ pfOut.kind = "blocks"
    /\ pfIn.agentType = "backend_architect"
    /\ Len(pfOut.rows) = 1
    /\ pfIn.blocks[1].priority.expect = "medium"
    /\ pfIn.blocks[1].priority.lines # <<>>
    /\ pfOut.rows[1].priority = "medium"
    /\ pfOut.rows[1].queued_agent_id = "product_manager"
    /\ pfOut.rows[1].created_by = "backend_architect"
    /\ Len(pfOut.events) = 1

\* The type identifiers of the structured blocks
KnownTypes ==
    {<<"m", "e", "n", "t", "i", "o", "n">>,
     <<"d", "i", "a", "l", "o", "g">>,
     <<"i", "s", "s", "u", "e">>}

IsKnownHeader(l) ==
    IsHeaderLine(l) /\ LowerStr(TrimSpace(Tail(TrimSpace(l)))) \in KnownTypes

\* The terminated blocks of a text when only a header of a known type
\* opens a block, read from line i on
RECURSIVE KnownSpans(_, _)
KnownSpans(lines, i) ==
    IF i > Len(lines) THEN {}
    ELSE IF ~IsKnownHeader(lines[i]) THEN KnownSpans(lines, i + 1)
    ELSE IF \E j \in (i + 1)..Len(lines) : IsDashLine(lines[j])
    THEN LET last == CHOOSE j \in (i + 1)..Len(lines) :
                        /\ IsDashLine(lines[j])
                        /\ \A k \in (i + 1)..(j - 1) : ~IsDashLine(lines[k])
         IN {[first |-> i, last |-> last]} \cup KnownSpans(lines, last + 1)
    ELSE {}

\* C32: a block starts only on a line that is '@' and one of the types
\* mention, dialog, issue: the blocks returned have these types, and every
\* other line, a line that starts with '@' and goes on otherwise and the
\* lines after it up to the next '---' included, is in the cleaned text.
C32_OnlyKnownTypesOpenBlocks ==
    pfOut.kind = "extract" =>
        LET lines == Split(pfIn)
            spans == KnownSpans(lines, 1)
            outside == {i \in 1..Len(lines) :
                           \A b \in spans : i < b.first \/ i > b.last}
        IN /\ \A k \in 1..Len(pfOut.blocks) :
                 pfOut.blocks[k].typeName \in KnownTypes
           /\ pfOut.clean = TrimSpace(JoinLines(LinesAt(lines, outside, 1)))

(***************************************************************************)
(* Claims on an aborted applyActionPlan                                    *)
(***************************************************************************)

\* the step in which applyActionPlan returns an error
ApplyAborts == apPc # "done" /\ apPc' = "done" /\ apResult' = "error"

\* C33: when apply aborts, nothing is written for the aborting entry or for
\* any later one, and the entries before it keep their effect: the aborting
\* step leaves the files as the earlier entries made them and no step
\* follows it.  Files are processed before any mutation: a file entry is
\* never processed once the loop over the mutations has begun.
C33_AbortWritesNothingLater ==
    [][/\ ApplyAborts => (fs' = fs /\ written' = written)
       /\ apPc = "done" => (fs' = fs /\ apFiles' = apFiles /\ apMuts' = apMuts)
       /\ apFiles' # apFiles => (apMuts = 0 /\ mutationsApplied = 0)
       /\ mutationsApplied' # mutationsApplied => apPc = "mutations"]_vars

\* a file entry was written inside the workspace, and a later entry whose
\* path leaves the workspace made the call return an error
C33_Witness ==
    /\ apPc = "done"
    /\ apResult = "error"
    /\ escapeSeen
    /\ filesWritten = 1
    /\ written # {}
    /\ \A p \in written : Inside(p)
    /\ fs # InitialFiles

(***************************************************************************)
(* Claims on the chat path                                                 *)
(***************************************************************************)

UserEvent(ch) == [chat |-> ch, from |-> "user", type |-> "message.received"]

AgentReply(ch) == [chat |-> ch, from |-> "agent", type |-> "message.received"]

InLog(log, e) == \E i \in 1..Len(log) : log[i] = e

\* C34: the user's message is stored before its event reaches the hub, and
\* its event reaches the hub before any message.received event of the
\* agent's reply to it; when storing it fails, no event of it reaches the
\* hub and no agent is invoked; when no agent is detected, no reply is
\* stored or sent.
C34_UserEventBeforeReply ==
    \A ch \in Chats :
        /\ \A j \in 1..Len(hubLog) :
                hubLog[j] = AgentReply(ch) =>
                    \E i \in 1..(j - 1) : hubLog[i] = UserEvent(ch)
        /\ InLog(hubLog, UserEvent(ch)) =>
                InLog(msgLog, [chat |-> ch, from |-> "user"])
        /\ (chatPc[ch].pc # "idle"
                /\ ~InLog(msgLog, [chat |-> ch, from |-> "user"])) =>
                /\ \A j \in 1..Len(hubLog) : hubLog[j].chat # ch
                /\ replyPc[ch] = "none"
        /\ (chatPc[ch].pc # "idle" /\ DetectAgent(chatPc[ch].text) = "") =>
                /\ ~InLog(msgLog, [chat |-> ch, from |-> "agent"])
                /\ \A j \in 1..Len(hubLog) :
                        hubLog[j].chat = ch => hubLog[j].from = "user"

\* the hub has received the user's event and then two message.received
\* events of the agent that was detected: a mention of its reply and the
\* reply
C34_Witness ==
    \E ch \in Chats :
        /\ Len(hubLog) >= 3
        /\ hubLog[1] = UserEvent(ch)
        /\ hubLog[2] = AgentReply(ch)
        /\ hubLog[3] = AgentReply(ch)
        /\ InLog(msgLog, [chat |-> ch, from |-> "agent"])

(***************************************************************************)
(* Claims on the background loops                                          *)
(***************************************************************************)

\* C35: after the root context is cancelled the Dispatcher loop and the
\* queue-snapshot worker loop each eventually exit, and once the Dispatcher
\* loop has exited no issue is claimed any more.
C35_LoopsExitAfterCancel ==
    /\ \A l \in Loops : ctxDone ~> (loopPc[l].pc = "exited")
    /\ [][loopPc["dispatcher"].pc = "exited" =>
            /\ \A i \in IssueIds :
                  (Exists(issues', i) /\ issues'[i].status = "inProgress")
                      => issues'[i] = issues[i]
            /\ loopPc'["dispatcher"].pc = "exited"]_vars

\* the cancellation came while the worker was inside a tick, which it is
\* about to end, with a tick of its ticker waiting; the Dispatcher has
\* exited after a claim, and an issue is left queued
C35_Witness ==
    /\ ctxDone
    /\ loopPc["dispatcher"].pc = "exited"
    /\ loopPc["worker"] = [pc |-> "statusSnapshot", left |-> 1]
    /\ tickReady["worker"]
    /\ \E i, j \in IssueIds :
          /\ Exists(issues, i)
          /\ issues[i].status # "todo"
          /\ issues[i].started_at # NoTime
          /\ issues[i].priority = "urgent"
          /\ Exists(issues, j)
          /\ issues[j].status = "todo"
          /\ issues[j].queued_agent_id # Null

(***************************************************************************)
(* Claims on the hub loop                                                  *)
(***************************************************************************)

\* C36: the hub never sends on a closed client.send and never closes a
\* client.send twice, however the register, the unregister and the drops
\* on a full buffer of the same client interleave.
C36_NoSendOnClosedNoDoubleClose ==
    /\ closedSends = 0
    /\ \A c \in ClientIds : closes[c] <= 1
    /\ \A c \in hubClients : ~sendClosed[c]

\* a client was dropped on a full buffer, its read pump then unregistered
\* it, and the hub has fanned out a message since
C36_Witness ==
    \E c \in ClientIds :
        /\ connState[c] = "closed"
        /\ closes[c] = 1
        /\ Len(sendBuf[c]) = SendBufferCap
        /\ nextMsg > Last(sendBuf[c]) + 1

\* C39: the hub loop never waits for a client: every message offered on
\* hub.broadcast with a blocking send is eventually received by the hub,
\* whatever the client buffers hold, so that no sender stays blocked.
C39_OfferedIsReceived ==
    \A s \in Senders : offering[s] ~> ~offering[s]

\* the hub has received a message while a registered client's buffer was
\* full, and no sender is waiting
C39_Witness ==
    /\ \E c \in ClientIds :
          /\ sendClosed[c]
          /\ Len(sendBuf[c]) = SendBufferCap
          /\ connState[c] = "open"
    /\ \A s \in Senders : ~offering[s]
    /\ nextMsg = MaxMsgs

(***************************************************************************)
(* Claims on the completion of a run                                       *)
(***************************************************************************)

\* the step is the UPDATE of markIssueCompleted of run k
CompletionStep(k) == runs[k].pc = "complete" /\ runs'[k].pc # "complete"

\* C37: the completion of a run makes its issue done from any status other
\* than done, also todo, proposed or review to which a request has moved it
\* meanwhile, and clears queued_agent_id; when the issue is done already or
\* was deleted, the completion changes nothing and sends no issue.updated.
C37_CompletionFromAnyStatus ==
    [][\A k \in Runs :
          CompletionStep(k) =>
              LET id == runs[k].issue
              IN  IF Exists(issues, id) /\ issues[id].status # "done"
                  THEN /\ issues'[id].status = "done"
                       /\ issues'[id].queued_agent_id = Null
                       /\ \A j \in IssueIds \ {id} : issues'[j] = issues[j]
                  ELSE /\ issues' = issues
                       /\ runs'[k].pc # "complete_ev"]_vars

\* a request moved the issue in flight back to todo and queued it, and the
\* completion then made it done and cleared the queue
C37_Witness ==
    /\ runs[1].pc = "complete_ev"
    /\ Exists(issues, 1)
    /\ issues[1].status = "done"
    /\ issues[1].queued_at = 2
    /\ issues[1].queued_agent_id = Null
    /\ issues[1].completed_at = 2

(***************************************************************************)
(* Claims on the queued and the assigned agent                             *)
(***************************************************************************)

\* C38: whenever an issue's queued_agent_id is not null it equals the
\* issue's assigned_agent_id, so that the agent the Dispatcher runs for a
\* claimed issue is the agent the issue is assigned to.
C38_QueuedIsAssigned ==
    \A id \in IssueIds :
        (Exists(issues, id) /\ issues[id].queued_agent_id # Null) =>
            issues[id].queued_agent_id = issues[id].assigned_agent_id

\* an issue assigned to a requested agent, on a text that names another
\* agent, was claimed and then moved back to todo: it is queued again for
\* the agent it is assigned to
C38_Witness ==
    \E id \in IssueIds :
        /\ Exists(issues, id)
        /\ issues[id].status = "todo"
        /\ issues[id].started_at # NoTime
        /\ issues[id].queued_agent_id = "qa_tester"
        /\ issues[id].assigned_agent_id = "qa_tester"
        /\ issues[id].detected = "backend_architect"

(***************************************************************************)
(* Claims on the draining of the queue                                     *)
(***************************************************************************)

\* a request that queues an issue is under way: a create with status todo
\* or a move to todo
Enqueues == DrainRequest \/ DrainStep

\* C40: if from some point on no issue is enqueued or re-queued, and the
\* Dispatcher keeps ticking, every issue with status todo and a queued
\* agent is eventually claimed (in progress), whatever its priority.
C40_QueuedEventuallyClaimed ==
    (<>[][~Enqueues]_vars) =>
        \A id \in IssueIds :
            (/\ Exists(issues, id)
             /\ issues[id].status = "todo"
             /\ issues[id].queued_agent_id # Null)
            ~> (Exists(issues, id) /\ issues[id].status = "inProgress")

\* the tick has just claimed a low issue, after an urgent issue queued
\* with it was claimed
C40_Witness ==
    \E i, j \in IssueIds :
        /\ disp[LoopDisp].pc = "d_bcast"
        /\ disp[LoopDisp].id = i
        /\ Exists(issues, i)
        /\ issues[i].priority = "low"
        /\ issues[i].status = "inProgress"
        /\ issues[i].queued_agent_id = Null
        /\ Exists(issues, j)
        /\ issues[j].priority = "urgent"
        /\ issues[j].status = "inProgress"
        /\ issues[j].queued_agent_id = Null

====
